---- MODULE Spec2Model ----
(***************************************************************************)
(* A model of the CHIP-8 core (src/src/core): the Cpu of cpu.rs with its   *)
(* fetch/decode/exec cycle, and the Timer of timer.rs, whose thread        *)
(* decrements the delay and sound counters and drives the sound driver.    *)
(*                                                                         *)
(* Two threads are modelled.  The engine thread owns the Cpu and runs      *)
(* load, tick, exec, set_sound_driver and, at the end, the drop of the     *)
(* Timer.  The timer thread runs the loop of Timer::new, one action per    *)
(* shared-memory access.                                                   *)
(***************************************************************************)
EXTENDS Integers, Naturals, Sequences, FiniteSets, TLC

(* ----------------------------- bounds ---------------------------------- *)

\* Values the engine stores into registers in the timer specifications
\* are 0..MaxTimerVal.
MaxTimerVal == 3

\* Number of direct calls of exec the engine makes in one behaviour.
MaxExec == 4

\* Number of calls of load the engine makes in one behaviour.
MaxLoad == 1

(* ------------------------ program constants ---------------------------- *)

LOAD_OFFSET == 512
REG_COUNT == 16
RAM_BYTES == 4096
MAX_STACK_DEPTH == 32
MAX_REG == 15
INDEX_REG == 0
FLAG_REG == 15
DISPLAY_WIDTH == 64
DISPLAY_HEIGHT == 32
VRAM_BYTES == DISPLAY_WIDTH * DISPLAY_HEIGHT
FONT_SPRITES_RAM_START == 0
FONT_SPRITE_BYTES_PER == 5

(* ------------------------------ state ---------------------------------- *)

VARIABLES
    \* Cpu (cpu.rs 10-21); vram is the set of the offsets of the cells of
    \* self.vram that are true, the two drivers are "None" or "Some"
    pc, sp, i, v, stack, ram, vram, display_driver, input_driver,
    \* the Result of the engine's last operation, "Panic" when it panicked,
    \* and the Op an Err(UnimplementedOp) or Err(MalformedOp) carries
    res, eop,
    \* Timer (timer.rs 10-16)
    dt, st, halt, thread, sound_driver,
    \* the Mutex around sound_driver: "free", "engine" or "timer"
    lock,
    \* timer thread: its position, its local v and its local st_was_pos
    tpc, tv, st_was_pos,
    \* engine thread: its position, and set_sound_driver's argument
    epc, arg,
    \* history: the sound driver operation the current timer tick invoked
    called,
    \* history: the last sound driver operation the timer thread invoked
    sounded,
    \* history: calls of exec and load made so far
    nexec, nload,
    \* history: the index of the engine's last access to self.stack, -1
    \* before the first
    sidx,
    \* the display driver: the calls of refresh the engine's last operation
    \* made, and the frame buffer the last call of refresh was given
    refreshed, shown,
    \* the input driver: the keys for which poll returns true
    keys,
    \* history, per counter: the value last stored by the engine, the ticks
    \* that read the counter after that store and finished with it, whether
    \* the tick in progress read the counter before that store, and whether
    \* such a tick's compare-and-swap committed after it
    dtBase, dtK, dtStale, dtJ,
    stBase, stK, stStale, stJ,
    \* history: the sound counter as the tick in progress found it when it
    \* last accessed it, and as that access left it
    stPre, stPost

cpuVars ==
    <<pc, sp, i, v, stack, ram, vram, display_driver, input_driver, res, eop,
      refreshed, shown, keys>>
timerVars == <<dt, st, halt, thread, sound_driver, lock, tpc, tv, st_was_pos>>
engineVars == <<epc, arg, nexec, nload, sidx>>
dtHist == <<dtBase, dtK, dtStale, dtJ>>
stHist == <<stBase, stK, stStale, stJ>>
stTick == <<stPre, stPost>>
vars == <<cpuVars, timerVars, engineVars, called, sounded, dtHist, stHist, stTick>>

(* ----------------------------- helpers --------------------------------- *)

Max(a, b) == IF a >= b THEN a ELSE b
Min(a, b) == IF a <= b THEN a ELSE b

\* a decrement that takes two
Dec8_Two(x) == (x + 254) % 256

\* u8 subtraction of one, as the release build computes it
Dec8(x) == (x + 255) % 256

\* bit k of x, and the bitwise operations on two bytes
Bit(x, k) == (x \div (2 ^ k)) % 2

RECURSIVE Bitwise(_, _, _, _)
Bitwise(f, a, b, k) ==
    IF k > 7 THEN 0
    ELSE (2 ^ k) * f[Bit(a, k) + 1][Bit(b, k) + 1] + Bitwise(f, a, b, k + 1)

Or8(a, b) == Bitwise(<< <<0, 1>>, <<1, 1>> >>, a, b, 0)
And8(a, b) == Bitwise(<< <<0, 0>>, <<0, 1>> >>, a, b, 0)
Xor8(a, b) == Bitwise(<< <<0, 1>>, <<1, 0>> >>, a, b, 0)

\* the tick counts of the history are kept up to MaxTimerVal, the largest
\* value a counter is given: beyond it the counter has reached zero
Sat(k) == Min(k, MaxTimerVal)

(* ------------------------- operations (op.rs) -------------------------- *)

\* An Op value: the variant's name and its operands; operands a variant
\* does not carry are 0.  Reg(x), Reg(y) are x and y, in the order of the
\* variant's fields.
MkOp(name, x, y, kk, nnn) ==
    [op |-> name, x |-> x, y |-> y, kk |-> kk, nnn |-> nnn]

OpNone == [op |-> "None", x |-> 0, y |-> 0, kk |-> 0, nnn |-> 0]

\* a decoder that looks at no nibble but the operands': every word is a Sre
Decode_AllSre(code) == MkOp("Sre", (code \div 256) % 16, (code \div 16) % 16, 0, 0)

\* Op::decode: None is OpNone
Decode(code) ==
    LET nib3 == (code \div 4096) % 16
        nib2 == (code \div 256) % 16
        nib1 == (code \div 16) % 16
        nib0 == code % 16
        nnn  == code % 4096
        x    == nib2
        y    == nib1
        kk   == code % 256
    IN  CASE nib3 = 0 /\ nib2 = 0 /\ nib1 = 14 /\ nib0 = 0 -> MkOp("Cls", 0, 0, 0, 0)
          [] nib3 = 0 /\ nib2 = 0 /\ nib1 = 14 /\ nib0 = 14 -> MkOp("Ret", 0, 0, 0, 0)
          [] nib3 = 0 /\ ~(nib2 = 0 /\ nib1 = 14 /\ nib0 \in {0, 14}) -> MkOp("Sys", 0, 0, 0, nnn)
          [] nib3 = 1 -> MkOp("Jmp", 0, 0, 0, nnn)
          [] nib3 = 2 -> MkOp("Call", 0, 0, 0, nnn)
          [] nib3 = 3 -> MkOp("Se", x, 0, kk, 0)
          [] nib3 = 4 -> MkOp("Sne", x, 0, kk, 0)
          [] nib3 = 5 /\ nib0 = 0 -> MkOp("Sre", x, y, 0, 0)
          [] nib3 = 6 -> MkOp("Ld", x, 0, kk, 0)
          [] nib3 = 7 -> MkOp("Add", x, 0, kk, 0)
          [] nib3 = 8 /\ nib0 = 0 -> MkOp("Mov", x, y, 0, 0)
          [] nib3 = 8 /\ nib0 = 1 -> MkOp("Or", x, y, 0, 0)
          [] nib3 = 8 /\ nib0 = 2 -> MkOp("And", x, y, 0, 0)
          [] nib3 = 8 /\ nib0 = 3 -> MkOp("Xor", x, y, 0, 0)
          [] nib3 = 8 /\ nib0 = 4 -> MkOp("Addr", x, y, 0, 0)
          [] nib3 = 8 /\ nib0 = 5 -> MkOp("Subr", x, y, 0, 0)
          [] nib3 = 8 /\ nib0 = 6 -> MkOp("Shr", y, x, 0, 0)
          [] nib3 = 8 /\ nib0 = 7 -> MkOp("Subnr", x, y, 0, 0)
          [] nib3 = 8 /\ nib0 = 14 -> MkOp("Shl", y, x, 0, 0)
          [] nib3 = 9 /\ nib0 = 0 -> MkOp("Srne", x, y, 0, 0)
          [] nib3 = 10 -> MkOp("Ldi", 0, 0, 0, nnn)
          [] nib3 = 11 -> MkOp("Jmpi", 0, 0, 0, nnn)
          [] nib3 = 12 -> MkOp("Rand", x, 0, kk, 0)
          [] nib3 = 13 -> MkOp("Draw", x, y, nib0, 0)
          [] nib3 = 14 /\ nib1 = 9 /\ nib0 = 14 -> MkOp("Skp", x, 0, 0, 0)
          [] nib3 = 14 /\ nib1 = 10 /\ nib0 = 1 -> MkOp("Sknp", x, 0, 0, 0)
          [] nib3 = 15 /\ nib1 = 0 /\ nib0 = 7 -> MkOp("Movd", x, 0, 0, 0)
          [] nib3 = 15 /\ nib1 = 0 /\ nib0 = 10 -> MkOp("Key", x, 0, 0, 0)
          [] nib3 = 15 /\ nib1 = 1 /\ nib0 = 5 -> MkOp("Ldd", x, 0, 0, 0)
          [] nib3 = 15 /\ nib1 = 1 /\ nib0 = 8 -> MkOp("Lds", x, 0, 0, 0)
          [] nib3 = 15 /\ nib1 = 1 /\ nib0 = 14 -> MkOp("Addi", x, 0, 0, 0)
          [] nib3 = 15 /\ nib1 = 2 /\ nib0 = 9 -> MkOp("Ldspr", x, 0, 0, 0)
          [] nib3 = 15 /\ nib1 = 3 /\ nib0 = 3 -> MkOp("Bcd", x, 0, 0, 0)
          [] nib3 = 15 /\ nib1 = 5 /\ nib0 = 5 -> MkOp("Str", x, 0, 0, 0)
          [] nib3 = 15 /\ nib1 = 6 /\ nib0 = 5 -> MkOp("Read", x, 0, 0, 0)
          [] OTHER -> OpNone

(* ---------------------------- Cpu (cpu.rs) ----------------------------- *)

FONT_SPRITES ==
    << 240, 144, 144, 144, 240,   32,  96,  32,  32, 112,
       240,  16, 240, 128, 240,  240,  16, 240,  16, 240,
       144, 144, 240,  16,  16,  240, 128, 240,  16, 240,
       240, 128, 240, 144, 240,  240,  16,  32,  64,  64,
       240, 144, 240, 144, 240,  240, 144, 240,  16, 240,
       240, 144, 240, 144, 144,  224, 144, 224, 144, 224,
       240, 128, 128, 128, 240,  224, 144, 144, 144, 224,
       240, 128, 240, 128, 240,  240, 128, 240, 128, 128 >>

\* Cpu::new: the ram, filled with 0xff, with the font sprites at its start
InitRam(a) == IF a < Len(FONT_SPRITES) THEN FONT_SPRITES[a + 1] ELSE 255

\* The variable ram holds the cells of self.ram written since Cpu::new, as
\* a function from their addresses; RamAt(a) is self.ram[a].
RamAt(a) == IF a \in DOMAIN ram THEN ram[a] ELSE InitRam(a)

\* The state an operation of exec leaves, as a record: the fields of the
\* Cpu it may change, the two counters of the Timer, the Result, and what
\* the display driver was given.
\* M(npc) is the state with the program counter advanced and no other
\* change, Err(npc, e) the same state returning Err(e).
M(npc) ==
    [pc |-> npc, sp |-> sp, i |-> i, v |-> v, stack |-> stack, ram |-> ram,
     vram |-> vram, dt |-> dt, st |-> st, res |-> "Ok", eop |-> OpNone,
     sidx |-> sidx, refreshed |-> 0, shown |-> shown]

Err(npc, e) == [M(npc) EXCEPT !.res = e]

\* An index out of the bounds of an array: the thread panics.
Panic(npc) == [M(npc) EXCEPT !.res = "Panic"]

\* a register pattern that stops one short of MAX_REG
RegOk_Short(x) == x \in 0 .. MAX_REG - 1

RegOk(x) == x \in 0 .. MAX_REG

\* a Sys that leaves the program counter at the Sys
ExecSys_Stay(npc, op) == [Err(pc, "UnimplementedOp") EXCEPT !.eop = op]

ExecSys(npc, op) == [Err(npc, "UnimplementedOp") EXCEPT !.eop = op]

\* a Ret with no test of the stack pointer: sp - 1 wraps to 255
ExecRet_NoGuard(npc) ==
    IF Dec8(sp) \notin DOMAIN stack
    THEN [Panic(npc) EXCEPT !.sp = Dec8(sp), !.sidx = Dec8(sp)]
    ELSE [M(npc) EXCEPT !.sp = sp - 1, !.pc = stack[sp - 1], !.sidx = sp - 1]

\* a Ret that resumes at the oldest entry of the stack
ExecRet_Bottom(npc) ==
    IF sp = 0
    THEN Err(npc, "StackUnderflow")
    ELSE [M(npc) EXCEPT !.sp = sp - 1, !.pc = stack[0], !.sidx = 0]

ExecRet(npc) ==
    IF sp = 0
    THEN Err(npc, "StackUnderflow")
    ELSE IF (sp - 1) \notin DOMAIN stack
         THEN [Panic(npc) EXCEPT !.sp = sp - 1, !.sidx = sp - 1]
         ELSE [M(npc) EXCEPT !.sp = sp - 1, !.pc = stack[sp - 1], !.sidx = sp - 1]

ExecJmp(npc, addr) == [M(npc) EXCEPT !.pc = addr]

\* a Call that pushes the address of the Call itself
ExecCall_Self(npc, addr) ==
    IF sp > MAX_STACK_DEPTH
    THEN Err(npc, "StackOverflow")
    ELSE IF sp \notin DOMAIN stack
         THEN [Panic(npc) EXCEPT !.sidx = sp]
         ELSE [M(npc) EXCEPT !.stack = [stack EXCEPT ![sp] = npc - 2],
                             !.sp = sp + 1,
                             !.pc = addr,
                             !.sidx = sp]

ExecCall(npc, addr) ==
    IF sp > MAX_STACK_DEPTH
    THEN Err(npc, "StackOverflow")
    ELSE IF sp \notin DOMAIN stack
         THEN [Panic(npc) EXCEPT !.sidx = sp]
         ELSE [M(npc) EXCEPT !.stack = [stack EXCEPT ![sp] = npc],
                             !.sp = sp + 1,
                             !.pc = addr,
                             !.sidx = sp]

ExecSe(npc, x, kk) ==
    IF v[x] = kk THEN [M(npc) EXCEPT !.pc = npc + 2] ELSE M(npc)

ExecSne(npc, x, kk) ==
    IF v[x] # kk THEN [M(npc) EXCEPT !.pc = npc + 2] ELSE M(npc)

ExecSre(npc, x, y) ==
    IF v[x] = v[y] THEN [M(npc) EXCEPT !.pc = npc + 2] ELSE M(npc)

ExecSrne(npc, x, y) ==
    IF v[x] # v[y] THEN [M(npc) EXCEPT !.pc = npc + 2] ELSE M(npc)

ExecMov(npc, x, y) == [M(npc) EXCEPT !.v = [v EXCEPT ![x] = v[y]]]

ExecOr(npc, x, y) == [M(npc) EXCEPT !.v = [v EXCEPT ![x] = Or8(v[x], v[y])]]

ExecAnd(npc, x, y) == [M(npc) EXCEPT !.v = [v EXCEPT ![x] = And8(v[x], v[y])]]

ExecXor(npc, x, y) == [M(npc) EXCEPT !.v = [v EXCEPT ![x] = Xor8(v[x], v[y])]]

\* In the next five the register written first is overwritten by the
\* second write when the two are the same register, and the shifts read
\* v[y] again after they wrote the flag register.
ExecAddr(npc, x, y) ==
    LET sum == v[x] + v[y]
        v1 == [v EXCEPT ![x] = sum % 256]
    IN  [M(npc) EXCEPT !.v = [v1 EXCEPT ![FLAG_REG] = IF sum > 255 THEN 1 ELSE 0]]

\* a Subr that sets the flag register to the borrow
ExecSubr_Borrow(npc, x, y) ==
    LET v1 == [v EXCEPT ![x] = (v[x] - v[y]) % 256]
    IN  [M(npc) EXCEPT !.v = [v1 EXCEPT ![FLAG_REG] = IF v[x] < v[y] THEN 1 ELSE 0]]

ExecSubr(npc, x, y) ==
    LET v1 == [v EXCEPT ![x] = (v[x] - v[y]) % 256]
    IN  [M(npc) EXCEPT !.v = [v1 EXCEPT ![FLAG_REG] = IF v[x] < v[y] THEN 0 ELSE 1]]

ExecShr(npc, x, y) ==
    LET v1 == [v EXCEPT ![FLAG_REG] = v[y] % 2]
    IN  [M(npc) EXCEPT !.v = [v1 EXCEPT ![x] = v1[y] \div 2]]

ExecSubnr(npc, x, y) ==
    LET v1 == [v EXCEPT ![x] = (v[y] - v[x]) % 256]
    IN  [M(npc) EXCEPT !.v = [v1 EXCEPT ![FLAG_REG] = IF v[y] < v[x] THEN 0 ELSE 1]]

ExecShl(npc, x, y) ==
    LET v1 == [v EXCEPT ![FLAG_REG] = And8(v[y], 128)]
    IN  [M(npc) EXCEPT !.v = [v1 EXCEPT ![x] = (v1[y] * 2) % 256]]

ExecLd(npc, x, kk) == [M(npc) EXCEPT !.v = [v EXCEPT ![x] = kk]]

\* an Add that sets the flag register to the carry
ExecAdd_Carry(npc, x, kk) ==
    LET v1 == [v EXCEPT ![x] = (v[x] + kk) % 256]
    IN  [M(npc) EXCEPT !.v = [v1 EXCEPT ![FLAG_REG] = IF v[x] + kk > 255 THEN 1 ELSE 0]]

ExecAdd(npc, x, kk) == [M(npc) EXCEPT !.v = [v EXCEPT ![x] = (v[x] + kk) % 256]]

\* a Movd that loads the sound counter
ExecMovd_St(npc, x) == [M(npc) EXCEPT !.v = [v EXCEPT ![x] = st]]

ExecMovd(npc, x) == [M(npc) EXCEPT !.v = [v EXCEPT ![x] = dt]]

ExecLdd(npc, x) == [M(npc) EXCEPT !.dt = v[x]]

ExecLds(npc, x) == [M(npc) EXCEPT !.st = v[x]]

ExecLdi(npc, addr) == [M(npc) EXCEPT !.i = addr]

\* addr + v[0] past 0xffff panics in a build with overflow checks and wraps
\* in one without
ExecJmpi(npc, addr) ==
    IF addr + v[INDEX_REG] > 65535
    THEN {Panic(npc), [M(npc) EXCEPT !.pc = (addr + v[INDEX_REG]) % 65536]}
    ELSE {[M(npc) EXCEPT !.pc = addr + v[INDEX_REG]]}

\* rand::random::<u8>() is any byte
ExecRand(npc, x, kk) ==
    {[M(npc) EXCEPT !.v = [v EXCEPT ![x] = And8(r, kk)]] : r \in 0 .. 255}

\* display_driver.refresh(&self.vram) if there is a driver: what exec
\* returns after it changed the frame buffer
\* a refresh that is given the frame buffer as the operation found it
Refresh_Before(o) ==
    IF display_driver = "Some"
    THEN [o EXCEPT !.refreshed = @ + 1, !.shown = vram]
    ELSE [o EXCEPT !.res = "DriverMissing"]

Refresh(o) ==
    IF display_driver = "Some"
    THEN [o EXCEPT !.refreshed = @ + 1, !.shown = o.vram]
    ELSE [o EXCEPT !.res = "DriverMissing"]

ExecCls(npc) == Refresh([M(npc) EXCEPT !.vram = {}])

\* The rows n .. m - 1 of a Draw, from the register file vv and the frame
\* buffer fb the rows before them left, did_clear being dc.  A row reads
\* v[x] and v[y] as the rows before it left them, and ends with the write
\* of did_clear to the flag register.  The record holds the registers, the
\* frame buffer and did_clear as the loop leaves them.
RECURSIVE DrawRows(_, _, _, _, _, _, _)
DrawRows(x, y, m, n, vv, fb, dc) ==
    IF n >= m
    THEN [v |-> vv, vram |-> fb, did_clear |-> dc]
    ELSE LET spr_byte == RamAt(i + n)
             row == (vv[y] + n) % DISPLAY_HEIGHT
             cells == {row * DISPLAY_WIDTH + ((vv[x] + h) % DISPLAY_WIDTH) :
                          h \in {c \in 0 .. 7 : Bit(spr_byte, 7 - c) = 1}}
             did_clear == dc \/ (cells \cap fb # {})
         IN  DrawRows(x, y, m, n + 1,
                      [vv EXCEPT ![FLAG_REG] = IF did_clear THEN 1 ELSE 0],
                      (fb \ cells) \cup (cells \ fb),
                      did_clear)

\* the Draw with bound sum for self.i + m as the build computed it
DrawWith(npc, x, y, m, sum) ==
    IF sum < RAM_BYTES
    THEN LET d == DrawRows(x, y, m, 0, v, vram, FALSE)
         IN  Refresh([M(npc) EXCEPT !.v = d.v, !.vram = d.vram])
    ELSE Err(npc, "DataAbort")

\* self.i + m past 0xffff panics in a build with overflow checks and wraps
\* in one without; i + n is then computed in usize
ExecDraw(npc, x, y, m) ==
    IF i + m > 65535
    THEN {Panic(npc), DrawWith(npc, x, y, m, (i + m) % 65536)}
    ELSE {DrawWith(npc, x, y, m, i + m)}

\* input_driver.poll(key)
Poll(key) == key \in keys

\* a Skp that polls the key whose number is the index of the register
ExecSkp_Index(npc, x) ==
    IF input_driver = "Some"
    THEN IF Poll(x) THEN [M(npc) EXCEPT !.pc = npc + 2] ELSE M(npc)
    ELSE Err(npc, "DriverMissing")

ExecSkp(npc, x) ==
    IF input_driver = "Some"
    THEN IF Poll(v[x]) THEN [M(npc) EXCEPT !.pc = npc + 2] ELSE M(npc)
    ELSE Err(npc, "DriverMissing")

\* a Sknp that skips by adding 2 to the stack pointer
ExecSknp_Sp(npc, x) ==
    IF input_driver = "Some"
    THEN IF ~Poll(v[x]) THEN [M(npc) EXCEPT !.sp = (sp + 2) % 256] ELSE M(npc)
    ELSE [Err(npc, "DriverMissing") EXCEPT !.sp = (sp + 2) % 256]

ExecSknp(npc, x) ==
    IF input_driver = "Some"
    THEN IF ~Poll(v[x]) THEN [M(npc) EXCEPT !.pc = npc + 2] ELSE M(npc)
    ELSE Err(npc + 2, "DriverMissing")

\* input_driver.block() returns any key once it returns
ExecKey(npc, x) ==
    IF input_driver = "Some"
    THEN {[M(npc) EXCEPT !.v = [v EXCEPT ![x] = k]] : k \in 0 .. 255}
    ELSE {Err(npc, "DriverMissing")}

\* self.i += v[x] past 0xffff panics in a build with overflow checks and
\* wraps in one without
ExecAddi(npc, x) ==
    IF i + v[x] > 65535
    THEN {Panic(npc), [M(npc) EXCEPT !.i = (i + v[x]) % 65536]}
    ELSE {[M(npc) EXCEPT !.i = i + v[x]]}

ExecLdspr(npc, x) ==
    [M(npc) EXCEPT !.i = FONT_SPRITES_RAM_START + FONT_SPRITE_BYTES_PER * v[x]]

\* self.ram with the cells of the function w written
RamWrite(w) ==
    [a \in DOMAIN ram \cup DOMAIN w |-> IF a \in DOMAIN w THEN w[a] ELSE ram[a]]

\* a Bcd whose second digit is the value without its units
ExecBcd_Tens(npc, x) ==
    IF i < RAM_BYTES - 2
    THEN LET vx == v[x]
             h == vx \div 100
             t == vx \div 10
             o == vx - (h * 100) - ((vx - h * 100) \div 10) * 10
         IN  [M(npc) EXCEPT !.ram = RamWrite([a \in i .. i + 2 |->
                                        IF a = i THEN h ELSE IF a = i + 1 THEN t ELSE o])]
    ELSE Err(npc, "DataAbort")

ExecBcd(npc, x) ==
    IF i < RAM_BYTES - 2
    THEN LET vx == v[x]
             h == vx \div 100
             t == (vx - h * 100) \div 10
             o == vx - (h * 100) - (t * 10)
         IN  [M(npc) EXCEPT !.ram = RamWrite([a \in i .. i + 2 |->
                                        IF a = i THEN h ELSE IF a = i + 1 THEN t ELSE o])]
    ELSE Err(npc, "DataAbort")

\* a Str that copies the registers that fit before it returns the error
ExecStr_Partial(npc, x) ==
    IF i + x < RAM_BYTES
    THEN [M(npc) EXCEPT !.ram = RamWrite([a \in i .. i + x |-> v[a - i]])]
    ELSE [Err(npc, "DataAbort") EXCEPT
            !.ram = RamWrite([a \in i .. RAM_BYTES - 1 |-> v[a - i]])]

ExecStr(npc, x) ==
    IF i + x < RAM_BYTES
    THEN [M(npc) EXCEPT !.ram = RamWrite([a \in i .. i + x |-> v[a - i]])]
    ELSE Err(npc, "DataAbort")

\* a Read that stops before register x
ExecRead_Exclusive(npc, x) ==
    IF i + x < RAM_BYTES
    THEN [M(npc) EXCEPT !.v = [r \in DOMAIN v |-> IF r < x THEN RamAt(i + r) ELSE v[r]]]
    ELSE Err(npc, "DataAbort")

ExecRead(npc, x) ==
    IF i + x < RAM_BYTES
    THEN [M(npc) EXCEPT !.v = [r \in DOMAIN v |-> IF r <= x THEN RamAt(i + r) ELSE v[r]]]
    ELSE Err(npc, "DataAbort")

\* The arm of exec's match for op, after self.pc += 2 gave npc: the states
\* it may leave.  An arm with a register operand matches only registers
\* 0..MAX_REG; anything else falls to the last arm.
ExecAt(op, npc) ==
    CASE op.op = "Sys" -> {ExecSys(npc, op)}
      [] op.op = "Cls" -> {ExecCls(npc)}
      [] op.op = "Ret" -> {ExecRet(npc)}
      [] op.op = "Jmp" -> {ExecJmp(npc, op.nnn)}
      [] op.op = "Call" -> {ExecCall(npc, op.nnn)}
      [] op.op = "Se" /\ RegOk(op.x) -> {ExecSe(npc, op.x, op.kk)}
      [] op.op = "Sne" /\ RegOk(op.x) -> {ExecSne(npc, op.x, op.kk)}
      [] op.op = "Sre" /\ RegOk(op.x) /\ RegOk(op.y) -> {ExecSre(npc, op.x, op.y)}
      [] op.op = "Ld" /\ RegOk(op.x) -> {ExecLd(npc, op.x, op.kk)}
      [] op.op = "Add" /\ RegOk(op.x) -> {ExecAdd(npc, op.x, op.kk)}
      [] op.op = "Mov" /\ RegOk(op.x) /\ RegOk(op.y) -> {ExecMov(npc, op.x, op.y)}
      [] op.op = "Or" /\ RegOk(op.x) /\ RegOk(op.y) -> {ExecOr(npc, op.x, op.y)}
      [] op.op = "And" /\ RegOk(op.x) /\ RegOk(op.y) -> {ExecAnd(npc, op.x, op.y)}
      [] op.op = "Xor" /\ RegOk(op.x) /\ RegOk(op.y) -> {ExecXor(npc, op.x, op.y)}
      [] op.op = "Addr" /\ RegOk(op.x) /\ RegOk(op.y) -> {ExecAddr(npc, op.x, op.y)}
      [] op.op = "Subr" /\ RegOk(op.x) /\ RegOk(op.y) -> {ExecSubr(npc, op.x, op.y)}
      [] op.op = "Shr" /\ RegOk(op.x) /\ RegOk(op.y) -> {ExecShr(npc, op.x, op.y)}
      [] op.op = "Subnr" /\ RegOk(op.x) /\ RegOk(op.y) -> {ExecSubnr(npc, op.x, op.y)}
      [] op.op = "Shl" /\ RegOk(op.x) /\ RegOk(op.y) -> {ExecShl(npc, op.x, op.y)}
      [] op.op = "Srne" /\ RegOk(op.x) /\ RegOk(op.y) -> {ExecSrne(npc, op.x, op.y)}
      [] op.op = "Ldi" -> {ExecLdi(npc, op.nnn)}
      [] op.op = "Jmpi" -> ExecJmpi(npc, op.nnn)
      [] op.op = "Rand" /\ RegOk(op.x) -> ExecRand(npc, op.x, op.kk)
      [] op.op = "Draw" /\ RegOk(op.x) /\ RegOk(op.y) -> ExecDraw(npc, op.x, op.y, op.kk)
      [] op.op = "Skp" /\ RegOk(op.x) -> {ExecSkp(npc, op.x)}
      [] op.op = "Sknp" /\ RegOk(op.x) -> {ExecSknp(npc, op.x)}
      [] op.op = "Movd" /\ RegOk(op.x) -> {ExecMovd(npc, op.x)}
      [] op.op = "Key" /\ RegOk(op.x) -> ExecKey(npc, op.x)
      [] op.op = "Ldd" /\ RegOk(op.x) -> {ExecLdd(npc, op.x)}
      [] op.op = "Lds" /\ RegOk(op.x) -> {ExecLds(npc, op.x)}
      [] op.op = "Addi" /\ RegOk(op.x) -> ExecAddi(npc, op.x)
      [] op.op = "Ldspr" /\ RegOk(op.x) -> {ExecLdspr(npc, op.x)}
      [] op.op = "Bcd" /\ RegOk(op.x) -> {ExecBcd(npc, op.x)}
      [] op.op = "Str" /\ RegOk(op.x) -> {ExecStr(npc, op.x)}
      [] op.op = "Read" /\ RegOk(op.x) -> {ExecRead(npc, op.x)}
      [] OTHER -> {[Err(npc, "MalformedOp") EXCEPT !.eop = op]}

\* Cpu::exec: the states it may leave.  self.pc += 2 past 0xffff panics
\* in a build with overflow checks and wraps in one without.
Exec(op) ==
    IF pc + 2 > 65535
    THEN {Panic(pc)} \cup ExecAt(op, (pc + 2) % 65536)
    ELSE ExecAt(op, pc + 2)

\* Cpu::fetch: the word at pc, or the error.  ram[pc + 1] at pc = 0xfff is
\* out of bounds.
Fetch ==
    IF pc > RAM_BYTES - 1
    THEN [res |-> "PrefetchAbort", word |-> 0]
    ELSE IF pc + 1 > RAM_BYTES - 1
         THEN [res |-> "Panic", word |-> 0]
         ELSE [res |-> "Ok", word |-> RamAt(pc) * 256 + RamAt(pc + 1)]

\* a tick that steps over a word that does not decode
Tick_SkipBad ==
    IF Fetch.res # "Ok"
    THEN {[M(pc) EXCEPT !.res = Fetch.res]}
    ELSE IF Decode(Fetch.word) = OpNone
         THEN {Err(pc + 2, "BadInstruction")}
         ELSE Exec(Decode(Fetch.word))

\* Cpu::tick: the states it may leave
Tick ==
    IF Fetch.res # "Ok"
    THEN {[M(pc) EXCEPT !.res = Fetch.res]}
    ELSE IF Decode(Fetch.word) = OpNone
         THEN {Err(pc, "BadInstruction")}
         ELSE Exec(Decode(Fetch.word))

\* a load that refuses the program that fills the memory to its end
Load_Strict(data) ==
    IF Len(data) >= RAM_BYTES - LOAD_OFFSET
    THEN Err(pc, "LoadFailure")
    ELSE [M(LOAD_OFFSET) EXCEPT
            !.ram = [a \in DOMAIN ram \cup (LOAD_OFFSET .. LOAD_OFFSET + Len(data) - 1) |->
                        IF a >= LOAD_OFFSET /\ a < LOAD_OFFSET + Len(data)
                        THEN data[a - LOAD_OFFSET + 1]
                        ELSE ram[a]]]

\* a load that clears the frame buffer
Load_Clears(data) ==
    IF Len(data) > RAM_BYTES - LOAD_OFFSET
    THEN Err(pc, "LoadFailure")
    ELSE [M(LOAD_OFFSET) EXCEPT
            !.vram = {},
            !.ram = [a \in DOMAIN ram \cup (LOAD_OFFSET .. LOAD_OFFSET + Len(data) - 1) |->
                        IF a >= LOAD_OFFSET /\ a < LOAD_OFFSET + Len(data)
                        THEN data[a - LOAD_OFFSET + 1]
                        ELSE ram[a]]]

\* Cpu::load: the state it leaves
Load(data) ==
    IF Len(data) > RAM_BYTES - LOAD_OFFSET
    THEN Err(pc, "LoadFailure")
    ELSE [M(LOAD_OFFSET) EXCEPT
            !.ram = [a \in DOMAIN ram \cup (LOAD_OFFSET .. LOAD_OFFSET + Len(data) - 1) |->
                        IF a >= LOAD_OFFSET /\ a < LOAD_OFFSET + Len(data)
                        THEN data[a - LOAD_OFFSET + 1]
                        ELSE ram[a]]]

\* a classification in which a missing driver is fatal
fatal_Driver(e) == e \notin {"MalformedOp", "UnimplementedOp"}

\* Error::fatal
fatal(e) == e \notin {"DriverMissing", "MalformedOp", "UnimplementedOp"}

(* --------------------------- engine thread ----------------------------- *)

\* The engine's operation leaves state o.
Apply(o) ==
    /\ pc' = o.pc
    /\ sp' = o.sp
    /\ v' = o.v
    /\ stack' = o.stack
    /\ i' = o.i
    /\ ram' = o.ram
    /\ vram' = o.vram
    /\ eop' = o.eop
    /\ UNCHANGED <<display_driver, input_driver, keys>>
    /\ refreshed' = o.refreshed
    /\ shown' = o.shown
    /\ dt' = o.dt
    /\ st' = o.st
    /\ res' = o.res
    /\ sidx' = o.sidx

\* The history of a counter when the engine runs op: a store (Ldd, Lds)
\* starts it again, and a tick between its load and its compare-and-swap
\* of that counter has read the counter before the store.
StoresDt(op, o) == op.op = "Ldd" /\ o.res = "Ok"
StoresSt(op, o) == op.op = "Lds" /\ o.res = "Ok"

Hist(op, o) ==
    /\ IF StoresDt(op, o)
       THEN /\ dtBase' = o.dt
            /\ dtK' = 0
            /\ dtJ' = 0
            /\ dtStale' = (tpc = "dt_cas")
       ELSE UNCHANGED dtHist
    /\ IF StoresSt(op, o)
       THEN /\ stBase' = o.st
            /\ stK' = 0
            /\ stJ' = 0
            /\ stStale' = (tpc = "st_cas")
       ELSE UNCHANGED stHist

Running == epc = "run" /\ res # "Panic"

\* a direct call of exec(op)
E_ExecOp(op) ==
    /\ Running
    /\ nexec < MaxExec
    /\ \E o \in Exec(op) : Apply(o) /\ Hist(op, o)
    /\ nexec' = nexec + 1
    /\ UNCHANGED <<halt, thread, sound_driver, lock, tpc, tv, st_was_pos>>
    /\ UNCHANGED <<epc, arg, nload, called, sounded, stTick>>

\* a direct call of exec with an operation of ops
E_Exec(ops) == \E op \in ops : E_ExecOp(op)

\* the operation tick executes, OpNone when it returns before exec
TickOp == IF Fetch.res = "Ok" THEN Decode(Fetch.word) ELSE OpNone

\* a call of tick
E_Tick ==
    /\ Running
    /\ \E o \in Tick : Apply(o) /\ Hist(TickOp, o)
    /\ UNCHANGED <<halt, thread, sound_driver, lock, tpc, tv, st_was_pos>>
    /\ UNCHANGED <<epc, arg, nexec, nload, called, sounded, stTick>>

\* a call of load(data)
E_LoadData(data) ==
    /\ Running
    /\ nload < MaxLoad
    /\ Apply(Load(data))
    /\ nload' = nload + 1
    /\ UNCHANGED <<halt, thread, sound_driver, lock, tpc, tv, st_was_pos>>
    /\ UNCHANGED <<epc, arg, nexec, called, sounded, dtHist, stHist, stTick>>

\* a call of load with a program of progs
E_Load(progs) == \E data \in progs : E_LoadData(data)

\* what a call of the engine that is neither exec, tick nor load leaves alone
EngineKeeps ==
    /\ UNCHANGED <<pc, sp, i, v, stack, ram, vram, res, eop, refreshed, shown>>
    /\ UNCHANGED <<timerVars, engineVars, called, sounded, dtHist, stHist, stTick>>

\* a call of set_display_driver(driver)
E_SetDisplayDriver ==
    /\ Running
    /\ \E driver \in {"None", "Some"} : display_driver' = driver
    /\ UNCHANGED <<input_driver, keys>>
    /\ EngineKeeps

\* a call of set_input_driver(driver)
E_SetInputDriver ==
    /\ Running
    /\ \E driver \in {"None", "Some"} : input_driver' = driver
    /\ UNCHANGED <<display_driver, keys>>
    /\ EngineKeeps

\* the user presses or releases the key k
KeyChange(k) ==
    /\ keys' = IF k \in keys THEN keys \ {k} ELSE keys \cup {k}
    /\ UNCHANGED <<display_driver, input_driver>>
    /\ EngineKeeps

\* set_sound_driver: lock() returns once the mutex is free
E_SetSoundLock ==
    /\ Running
    /\ lock = "free"
    /\ lock' = "engine"
    /\ epc' = "ssd"
    /\ arg' \in {"None", "Some"}
    /\ UNCHANGED <<cpuVars, dt, st, halt, thread, sound_driver, tpc, tv, st_was_pos>>
    /\ UNCHANGED <<nexec, nload, sidx, called, sounded, dtHist, stHist, stTick>>

\* set_sound_driver: *d = driver, and the guard is dropped
E_SetSoundStore ==
    /\ epc = "ssd"
    /\ sound_driver' = arg
    /\ lock' = "free"
    /\ epc' = "run"
    /\ UNCHANGED <<cpuVars, dt, st, halt, thread, tpc, tv, st_was_pos>>
    /\ UNCHANGED <<arg, nexec, nload, sidx, called, sounded, dtHist, stHist, stTick>>

\* Timer::drop, reached when the Cpu is dropped or its thread unwinds:
\* self.halt.store(true)
D_Halt ==
    /\ epc = "run"
    /\ halt' = TRUE
    /\ epc' = "drop_take"
    /\ UNCHANGED <<cpuVars, dt, st, thread, sound_driver, lock, tpc, tv, st_was_pos>>
    /\ UNCHANGED <<arg, nexec, nload, sidx, called, sounded, dtHist, stHist, stTick>>

\* Timer::drop: self.thread.take()
D_Take ==
    /\ epc = "drop_take"
    /\ thread' = "None"
    /\ epc' = IF thread = "Some" THEN "drop_join" ELSE "dropped"
    /\ UNCHANGED <<cpuVars, dt, st, halt, sound_driver, lock, tpc, tv, st_was_pos>>
    /\ UNCHANGED <<arg, nexec, nload, sidx, called, sounded, dtHist, stHist, stTick>>

\* Timer::drop: thread.join() returns once the timer thread has ended
D_Join ==
    /\ epc = "drop_join"
    /\ tpc = "exited"
    /\ epc' = "dropped"
    /\ UNCHANGED <<cpuVars, timerVars>>
    /\ UNCHANGED <<arg, nexec, nload, sidx, called, sounded, dtHist, stHist, stTick>>

(* ---------------------------- timer thread ----------------------------- *)

\* a compare_and_swap that stores whatever the atomic holds
CompareAndSwap_Blind(cur, current, new) == new

\* AtomicU8::compare_and_swap: the value it leaves in the atomic; it
\* returns the previous value, cur
CompareAndSwap(cur, current, new) == IF cur = current THEN new ELSE cur

\* a decrement with no guard
Positive_Always(x) == TRUE

\* v > 0, the guard of each decrement
Positive(x) == x > 0

\* a loop that does not look at the halt flag
HaltSeen_Never == FALSE

\* halt.load()
HaltSeen == halt

\* a lock taken whoever holds it
TryLock_Always(l) == TRUE

\* Mutex::try_lock: it is Ok when no thread holds the mutex
TryLock(l) == l = "free"

\* a start arm that tests v > 0
WantStart_Positive == tv > 0 /\ ~st_was_pos

\* a stop arm that tests v == 1
WantStop_Exact == tv = 1 /\ st_was_pos

\* a start arm that does not look at st_was_pos
WantStart_Again == tv > 1

\* the tests of the two arms that drive the sound driver
WantStop == tv <= 1 /\ st_was_pos
WantStart == tv > 1 /\ ~st_was_pos

\* if halt.load() { break; }
T_HaltCheck ==
    /\ tpc = "halt_check"
    /\ tpc' = IF HaltSeen THEN "exited" ELSE "dt_load"
    /\ called' = "none"
    /\ UNCHANGED sounded
    /\ UNCHANGED <<cpuVars, dt, st, halt, thread, sound_driver, lock, tv, st_was_pos>>
    /\ UNCHANGED <<engineVars, dtHist, stHist, stTick>>

\* let v = dt.load(); if v > 0
T_DtLoad ==
    /\ tpc = "dt_load"
    /\ tv' = dt
    /\ tpc' = IF Positive(dt) THEN "dt_cas" ELSE "st_load"
    /\ dtStale' = FALSE
    /\ dtK' = IF Positive(dt) THEN dtK ELSE Sat(dtK + 1)
    /\ UNCHANGED <<cpuVars, dt, st, halt, thread, sound_driver, lock, st_was_pos>>
    /\ UNCHANGED <<engineVars, called, sounded, dtBase, dtJ, stHist, stTick>>

\* dt.compare_and_swap(v, v - 1)
T_DtCas ==
    /\ tpc = "dt_cas"
    /\ dt' = CompareAndSwap(dt, tv, Dec8(tv))
    /\ tpc' = "st_load"
    /\ IF dtStale
       THEN dtJ' = (IF tv = dtBase THEN 1 ELSE dtJ) /\ dtK' = dtK
       ELSE dtK' = Sat(dtK + 1) /\ dtJ' = dtJ
    /\ UNCHANGED <<cpuVars, st, halt, thread, sound_driver, lock, tv, st_was_pos>>
    /\ UNCHANGED <<engineVars, called, sounded, dtBase, dtStale, stHist, stTick>>

\* let mut v = st.load(); if v > 0
T_StLoad ==
    /\ tpc = "st_load"
    /\ tv' = st
    /\ tpc' = IF Positive(st) THEN "st_cas" ELSE "sound_test"
    /\ stStale' = FALSE
    /\ stK' = IF Positive(st) THEN stK ELSE Sat(stK + 1)
    /\ stPre' = st
    /\ stPost' = st
    /\ UNCHANGED <<cpuVars, dt, st, halt, thread, sound_driver, lock, st_was_pos>>
    /\ UNCHANGED <<engineVars, called, sounded, stBase, stJ, dtHist>>

\* v = st.compare_and_swap(v, v - 1)
T_StCas ==
    /\ tpc = "st_cas"
    /\ st' = CompareAndSwap(st, tv, Dec8(tv))
    /\ tv' = st
    /\ tpc' = "sound_test"
    /\ IF stStale
       THEN stJ' = (IF tv = stBase THEN 1 ELSE stJ) /\ stK' = stK
       ELSE stK' = Sat(stK + 1) /\ stJ' = stJ
    /\ stPre' = st
    /\ stPost' = st'
    /\ UNCHANGED <<cpuVars, dt, halt, thread, sound_driver, lock, st_was_pos>>
    /\ UNCHANGED <<engineVars, called, sounded, stBase, stStale, dtHist>>

\* the two tests, and try_lock() in the arm taken: it fails when the
\* engine holds the mutex
T_SoundTest ==
    /\ tpc = "sound_test"
    /\ IF (WantStop \/ WantStart) /\ TryLock(lock)
       THEN lock' = "timer" /\ tpc' = (IF WantStop THEN "stop_call" ELSE "start_call")
       ELSE lock' = lock /\ tpc' = "sleep"
    /\ UNCHANGED <<cpuVars, dt, st, halt, thread, sound_driver, tv, st_was_pos>>
    /\ UNCHANGED <<engineVars, called, sounded, dtHist, stHist, stTick>>

\* sound_driver.stop_buzz() if there is a driver; st_was_pos = false
T_StopCall ==
    /\ tpc = "stop_call"
    /\ called' = IF sound_driver = "Some" THEN "stop" ELSE called
    /\ sounded' = IF sound_driver = "Some" THEN "stop" ELSE sounded
    /\ st_was_pos' = FALSE
    /\ lock' = "free"
    /\ tpc' = "sleep"
    /\ UNCHANGED <<cpuVars, dt, st, halt, thread, sound_driver, tv>>
    /\ UNCHANGED <<engineVars, dtHist, stHist, stTick>>

\* sound_driver.start_buzz() if there is a driver; st_was_pos = true
T_StartCall ==
    /\ tpc = "start_call"
    /\ called' = IF sound_driver = "Some" THEN "start" ELSE called
    /\ sounded' = IF sound_driver = "Some" THEN "start" ELSE sounded
    /\ st_was_pos' = TRUE
    /\ lock' = "free"
    /\ tpc' = "sleep"
    /\ UNCHANGED <<cpuVars, dt, st, halt, thread, sound_driver, tv>>
    /\ UNCHANGED <<engineVars, dtHist, stHist, stTick>>

\* thread::sleep(16 ms)
T_Sleep ==
    /\ tpc = "sleep"
    /\ tpc' = "halt_check"
    /\ UNCHANGED <<cpuVars, dt, st, halt, thread, sound_driver, lock, tv, st_was_pos>>
    /\ UNCHANGED <<engineVars, called, sounded, dtHist, stHist, stTick>>

TimerThread ==
    \/ T_HaltCheck
    \/ T_DtLoad
    \/ T_DtCas
    \/ T_StLoad
    \/ T_StCas
    \/ T_SoundTest
    \/ T_StopCall
    \/ T_StartCall
    \/ T_Sleep

TimerDrop == D_Halt \/ D_Take \/ D_Join

(* --------------------------- specifications ---------------------------- *)

\* Timer::new, and the history at the start of a behaviour
InitTimer ==
    /\ dt = 0
    /\ st = 0
    /\ halt = FALSE
    /\ thread = "Some"
    /\ sound_driver = "None"
    /\ lock = "free"
    /\ tpc = "halt_check"
    /\ tv = 0
    /\ st_was_pos = FALSE
    /\ epc = "run"
    /\ arg = "None"
    /\ called = "none"
    /\ sounded = "none"
    /\ nexec = 0
    /\ nload = 0
    /\ sidx = -1
    /\ dtBase = 0 /\ dtK = 0 /\ dtStale = FALSE /\ dtJ = 0
    /\ stBase = 0 /\ stK = 0 /\ stStale = FALSE /\ stJ = 0
    /\ stPre = 0 /\ stPost = 0

NewRegs == [r \in 0 .. REG_COUNT - 1 |-> 0]

\* The Cpu with the registers regs, the index register idx, the display
\* driver disp and the input driver inp, as Ld, Ldi, set_display_driver
\* and set_input_driver leave them after Cpu::new, then given the program
\* data by load, with the keys ks pressed.
InitWith(data, regs, idx, disp, inp, ks) ==
    /\ pc = LOAD_OFFSET
    /\ sp = 0
    /\ i = idx
    /\ v = regs
    /\ stack = [k \in 0 .. MAX_STACK_DEPTH - 1 |-> 0]
    /\ ram = [a \in LOAD_OFFSET .. LOAD_OFFSET + Len(data) - 1 |-> data[a - LOAD_OFFSET + 1]]
    /\ vram = {}
    /\ display_driver = disp
    /\ input_driver = inp
    /\ res = "Ok"
    /\ eop = OpNone
    /\ refreshed = 0
    /\ shown = {}
    /\ keys = ks
    /\ InitTimer

\* the same with no input driver
InitLoaded(data, regs, idx, disp) == InitWith(data, regs, idx, disp, "None", {})

\* Cpu::new and Timer::new
Init ==
    /\ pc = 0
    /\ sp = 0
    /\ i = 0
    /\ v = NewRegs
    /\ stack = [k \in 0 .. MAX_STACK_DEPTH - 1 |-> 0]
    /\ ram = [a \in {} |-> 0]
    /\ vram = {}
    /\ display_driver = "None"
    /\ input_driver = "None"
    /\ res = "Ok"
    /\ eop = OpNone
    /\ refreshed = 0
    /\ shown = {}
    /\ keys = {}
    /\ InitTimer

\* The engine of the timer specifications: it sets register 0, stores it
\* into a counter and reads the delay counter back.
TimerOps ==
    {MkOp("Ld", 0, 0, k, 0) : k \in 0 .. MaxTimerVal}
        \cup {MkOp("Ldd", 0, 0, 0, 0), MkOp("Lds", 0, 0, 0, 0), MkOp("Movd", 0, 0, 0, 0)}

NextTimer ==
    \/ E_Exec(TimerOps)
    \/ E_SetSoundLock
    \/ E_SetSoundStore
    \/ TimerDrop
    \/ TimerThread

SpecTimer == Init /\ [][NextTimer]_vars

\* The engine of the drop specification: it stores MaxTimerVal into the
\* counters, so that the ticks the drop meets have decrements to make and
\* the sound driver to invoke.
DropOps ==
    {MkOp("Ld", 0, 0, MaxTimerVal, 0), MkOp("Ldd", 0, 0, 0, 0), MkOp("Lds", 0, 0, 0, 0)}

NextDrop ==
    \/ E_Exec(DropOps)
    \/ E_SetSoundLock
    \/ E_SetSoundStore
    \/ TimerDrop
    \/ TimerThread

\* The scheduler runs the timer thread, and the engine thread once it is in
\* Timer::drop, whenever they can take a step.
FairSpecDrop ==
    Init /\ [][NextDrop]_vars /\ WF_vars(TimerThread) /\ WF_vars(TimerDrop)

\* The programs of the engine specification, as the bytes given to load.
\* At 0x200: call 0x200.
ProgRecurse == <<34, 0>>
\* At 0x200: call 0x204; jmp 0x200; ret.
ProgCallRet == <<34, 4, 18, 0, 0, 238>>
\* At 0x200: ret; ld v0, 1; call 0x206; ret.
ProgRet == <<0, 238, 96, 1, 34, 6, 0, 238>>

Programs == {ProgRecurse, ProgCallRet, ProgRet}

\* The operations the engine of the engine specification gives to exec.
CpuOps ==
    {MkOp("Call", 0, 0, 0, LOAD_OFFSET), MkOp("Ret", 0, 0, 0, 0),
     MkOp("Jmp", 0, 0, 0, LOAD_OFFSET)}

\* The engine alone: load, tick and exec in any order.
NextCpu ==
    \/ E_Load(Programs)
    \/ E_Tick
    \/ E_Exec(CpuOps)

SpecCpu == Init /\ [][NextCpu]_vars

\* The engine given one instruction: every 16-bit word, loaded as a program
\* of two bytes into a new Cpu, and then ticks.
InitWord == \E h \in 0 .. 255, l \in 0 .. 255 : InitLoaded(<<h, l>>, NewRegs, 0, "None")

NextWord == E_Tick

SpecWord == InitWord /\ [][NextWord]_vars

\* The bytes the registers hold in the arithmetic specification, and the
\* register files: register r holds the byte at place r + s, so that over
\* the seeds s every two registers hold every two of the bytes.
ByteVals == <<0, 1, 2, 127, 128, 129, 254, 255, 100, 200, 85, 170, 3, 64, 192, 16, 240>>

RegFile(s) == [r \in 0 .. REG_COUNT - 1 |-> ByteVals[((r + s) % Len(ByteVals)) + 1]]

Seeds == 0 .. Len(ByteVals) - 1

\* the immediate operands of the arithmetic specification
Immediates == {0, 1, 2, 127, 128, 255}

\* The programs of the arithmetic specification: every word of family 8,
\* and Ld vr, a; Add vr, k for every register.
AluPrograms ==
    {<<128 + x, 16 * y + n>> : x \in 0 .. 15, y \in 0 .. 15, n \in 0 .. 15}
        \cup {<<96 + r, a, 112 + r, k>> : r \in 0 .. 15, a \in Immediates, k \in Immediates}

\* The engine given registers and a program of the arithmetic
\* specification, and then ticks.
InitAlu == \E s \in Seeds, data \in AluPrograms : InitLoaded(data, RegFile(s), 0, "None")

NextAlu == E_Tick

SpecAlu == InitAlu /\ [][NextAlu]_vars

\* a program of four Sys
ProgSys == <<0, 1, 0, 2, 0, 3, 0, 4>>

\* The programs of the load specification: the program that fills the
\* memory from 0x200 to its end, which begins with jmp 0x200, the program
\* one byte longer, and short ones.
ProgFull ==
    [k \in 1 .. RAM_BYTES - LOAD_OFFSET |-> IF k = 1 THEN 18 ELSE IF k = 2 THEN 0 ELSE k % 251]

ProgOver == [k \in 1 .. RAM_BYTES - LOAD_OFFSET + 1 |-> (k + 1) % 253]

LoadPrograms == {ProgFull, ProgOver, ProgRet, ProgCallRet, ProgSys}

\* The engine alone: load and tick in any order.
NextLoad ==
    \/ E_Load(LoadPrograms)
    \/ E_Tick

\* A new Cpu, or one that was given a program that load accepts.
InitLoad ==
    \/ Init
    \/ \E data \in {ProgFull, ProgRet, ProgCallRet, ProgSys} : InitLoaded(data, NewRegs, 0, "None")

SpecLoad == InitLoad /\ [][NextLoad]_vars

\* The coordinates the registers hold in the draw specification, the
\* register files made of them, and the values of the index register: the
\* glyph 0 and the last 5 bytes of the memory.
DrawVals == <<60, 30, 5>>

DrawRegFile(s) == [r \in 0 .. REG_COUNT - 1 |-> DrawVals[((r + s) % Len(DrawVals)) + 1]]

DrawSeeds == 0 .. Len(DrawVals) - 1

DrawIndexes == {0, RAM_BYTES - 5}

\* The programs of the draw specification: Draw vx, vy, m; jmp 0x200, for
\* every x, y and m.
DrawPrograms ==
    {<<208 + x, 16 * y + m, 18, 0>> : x \in 0 .. 15, y \in 0 .. 15, m \in 0 .. 15}

\* The engine given registers, an index register, a display driver or none
\* and a program of the draw specification, and then ticks.
InitDraw ==
    \E s \in DrawSeeds, idx \in DrawIndexes, disp \in {"None", "Some"}, data \in DrawPrograms :
        InitLoaded(data, DrawRegFile(s), idx, disp)

NextDraw == E_Tick

SpecDraw == InitDraw /\ [][NextDraw]_vars

\* The words of the display specification that are neither Cls nor Draw:
\* one of every other family of operations, one that does not decode, and
\* the Jmpi that leaves the memory.
ShowWords ==
    {<<0, 238>>, <<1, 35>>, <<18, 0>>, <<34, 8>>, <<48, 60>>, <<64, 60>>, <<80, 16>>,
     <<96, 7>>, <<112, 9>>, <<128, 16>>, <<128, 17>>, <<128, 18>>, <<128, 19>>,
     <<128, 20>>, <<128, 21>>, <<128, 22>>, <<128, 23>>, <<128, 30>>, <<144, 16>>,
     <<162, 0>>, <<178, 0>>, <<192, 1>>, <<224, 158>>, <<224, 161>>, <<240, 7>>,
     <<240, 10>>, <<240, 21>>, <<240, 24>>, <<240, 30>>, <<240, 41>>, <<240, 51>>,
     <<241, 85>>, <<241, 101>>, <<255, 255>>, <<191, 255>>}

\* The programs of the display specification: Draw vx, vy, m; Cls; a word
\* of ShowWords, of which jmp 0x200 runs the program again.
ShowPrograms ==
    {<<208 + x, 16 * y + m, 0, 224>> \o w :
        x \in {0, 1}, y \in {1, 2}, m \in {0, 1, 5, 15}, w \in ShowWords}

\* The engine given registers, an index register, a display driver or none
\* and a program of the display specification; then ticks, with calls of
\* set_display_driver between them.
InitShow ==
    \E s \in DrawSeeds, idx \in DrawIndexes, disp \in {"None", "Some"}, data \in ShowPrograms :
        InitLoaded(data, DrawRegFile(s), idx, disp)

NextShow ==
    \/ E_Tick
    \/ E_SetDisplayDriver

SpecShow == InitShow /\ [][NextShow]_vars

\* The values of the index register in the error specification: the glyph
\* 0 and the last byte of the memory.
FailIndexes == {0, RAM_BYTES - 1}

\* The programs of the error specification: Draw v0, v1, m; then Cls or a
\* word of ShowWords.
FailPrograms ==
    {<<208, 16 + m>> \o w : m \in {0, 5}, w \in ShowWords \cup {<<0, 224>>}}

\* The operations the engine of the error specification gives to exec:
\* operations with a register that is none of the 16.
FailOps ==
    {MkOp("Ld", REG_COUNT, 0, 1, 0), MkOp("Draw", 0, REG_COUNT, 5, 0),
     MkOp("Sknp", REG_COUNT, 0, 0, 0)}

\* The engine given registers, an index register, a display driver or none
\* and a program of the error specification; then ticks, calls of exec and
\* calls of load with the program that is one byte too long.
InitFail ==
    \E s \in DrawSeeds, idx \in FailIndexes, disp \in {"None", "Some"}, data \in FailPrograms :
        InitLoaded(data, DrawRegFile(s), idx, disp)

NextFail ==
    \/ E_Tick
    \/ E_Exec(FailOps)
    \/ E_Load({ProgOver})

SpecFail == InitFail /\ [][NextFail]_vars

\* The values of the index register in the memory specifications, as Ldi
\* and Addi leave them: the address of the repository's test, the
\* program's own address, and the addresses about the end of the memory.
MemIndexes ==
    {1024, LOAD_OFFSET, RAM_BYTES - 4, RAM_BYTES - 3, RAM_BYTES - 2, RAM_BYTES - 1,
     RAM_BYTES, 65535}

\* The engine given a byte in register x, an index register and the
\* program Bcd vx, for register 0 and the flag register; then ticks.
InitBcd ==
    \E val \in 0 .. 255, x \in {0, FLAG_REG}, idx \in MemIndexes :
        InitLoaded(<<240 + x, 51>>, [NewRegs EXCEPT ![x] = val], idx, "None")

NextBcd == E_Tick

SpecBcd == InitBcd /\ [][NextBcd]_vars

\* the register files of the block specification
BlockSeeds == {0, 5}

\* The engine given registers that all differ, an index register and the
\* program Str vx; Read vy, for every x and y; then ticks.
InitBlock ==
    \E s \in BlockSeeds, idx \in MemIndexes, x \in 0 .. MAX_REG, y \in 0 .. MAX_REG :
        InitLoaded(<<240 + x, 85, 240 + y, 101>>, RegFile(s), idx, "None")

NextBlock == E_Tick

SpecBlock == InitBlock /\ [][NextBlock]_vars

\* The registers of the key specification: register r holds the key
\* r + 3 mod 16, so that no register holds its own index.
KeyRegFile == [r \in 0 .. REG_COUNT - 1 |-> (r + 3) % 16]

\* the keys the user presses and releases in the key specification
KeyPad == {0, 1, 3, 4}

\* the programs of the key specification: Skp vx; Sknp vx and Sknp vx;
\* Skp vx, for every x
KeyPrograms ==
    {<<224 + x, 158, 224 + x, 161>> : x \in 0 .. MAX_REG}
        \cup {<<224 + x, 161, 224 + x, 158>> : x \in 0 .. MAX_REG}

\* The engine given the registers and a program of the key specification;
\* then ticks, calls of set_input_driver and changes of the keys.
InitKey == \E data \in KeyPrograms : InitLoaded(data, KeyRegFile, 0, "None")

NextKey ==
    \/ E_Tick
    \/ E_SetInputDriver
    \/ \E k \in KeyPad : KeyChange(k)

SpecKey == InitKey /\ [][NextKey]_vars

\* The low bytes of the words of the program counter specification: the
\* bytes the registers hold, for the immediate operands, and the low bytes
\* decode tells the operations of the families 0, 14 and 15 by.
PcLows ==
    {ByteVals[k] : k \in 1 .. Len(ByteVals)}
        \cup {224, 238, 158, 161, 7, 10, 21, 24, 30, 41, 51, 85, 101, 4, 32}

\* the keys pressed in the program counter specification: the keys of
\* v1 and v3
PcKeys == {2, 128}

\* The engine given registers that all differ, with 1 in v0, an input
\* driver or none,
\* and a program of a word with any high byte and a low byte of PcLows,
\* followed by Ret; then ticks.
InitPc ==
    \E h \in 0 .. 255, l \in PcLows, inp \in {"None", "Some"} :
        InitWith(<<h, l, 0, 238>>, RegFile(1), 0, "None", inp, PcKeys)

NextPc == E_Tick

SpecPc == InitPc /\ [][NextPc]_vars

\* The engine with a display driver, given a program of the error
\* specification; then ticks and calls of load, with the timer thread
\* running beside them.
InitFrame == \E data \in FailPrograms : InitLoaded(data, DrawRegFile(0), 0, "Some")

NextFrame ==
    \/ E_Tick
    \/ E_Load({ProgSys, ProgOver})
    \/ TimerThread

SpecFrame == InitFrame /\ [][NextFrame]_vars

\* the registers the index specification adds to the index register:
\* they hold 128, 64, 192, 16 and 240
IndexRegs == {3, 12, 13, 14, FLAG_REG}

\* The engine given registers that all differ and the program Ldi 0xfff;
\* Addi vx; jmp 0x202, for a register of IndexRegs; then ticks.
InitIndex ==
    \E x \in IndexRegs :
        InitLoaded(<<175, 255, 240 + x, 30, 18, 2>>, RegFile(1), 0, "None")

NextIndex == E_Tick

SpecIndex == InitIndex /\ [][NextIndex]_vars

(* ------------------------------ claims --------------------------------- *)

\* the steps of the timer thread that end its access to a counter
DtCasStep == tpc = "dt_cas" /\ tpc' = "st_load"
StCasStep == tpc = "st_cas" /\ tpc' = "sound_test"
TimerStep == tpc' # tpc

\* C1: a store of the engine is never lost to a tick.  When the engine
\* stored w into a counter after the tick in progress read v from it, and
\* w differs from v, the tick's compare-and-swap leaves the counter at w.
C1_StoreNeverLost ==
    [][ /\ (DtCasStep /\ dtStale /\ dtBase # tv) => dt' = dtBase
        /\ (StCasStep /\ stStale /\ stBase # tv) => st' = stBase ]_vars

\* C1, reached: the tick has done its compare-and-swap of the delay counter
\* after the engine stored a value other than the one the tick had read,
\* and the counter holds the stored value.
C1_Witness ==
    /\ tpc = "st_load"
    /\ dtStale
    /\ dtBase # tv
    /\ dt = dtBase
    /\ dtBase # Dec8(tv)

\* C2: a step of the timer thread changes each counter by 0 or by -1,
\* changes it only when the value it read was greater than zero, never
\* takes it from 0 to 255 and never increases it.
C2_TickDecrement ==
    [][ TimerStep =>
        /\ dt' \in {dt, dt - 1}
        /\ st' \in {st, st - 1}
        /\ (dt' # dt => DtCasStep /\ tv > 0)
        /\ (st' # st => StCasStep /\ tv > 0)
        /\ ~(dt = 0 /\ dt' = 255)
        /\ ~(st = 0 /\ st' = 255)
        /\ dt' <= dt /\ st' <= st ]_vars

\* C2, reached: a tick has just decremented the sound counter, and the
\* delay counter it found at zero is still zero.
C2_Witness ==
    /\ tpc = "sound_test"
    /\ ~stStale
    /\ stPre > 0
    /\ stPost = stPre - 1
    /\ st = stPost
    /\ dt = 0 /\ dtBase = 0 /\ dtK > 0

\* the delay counter a Movd of register x reads
MovdReads(x, value) ==
    E_ExecOp(MkOp("Movd", x, 0, 0, 0)) => v'[x] = value

\* C3 as stated: after the engine stored d and k ticks read the counter
\* after that store and finished with it, the counter holds max(d - k, 0),
\* and a Movd loads that value.
C3_Original ==
    [][ /\ dt' = Max(dtBase' - dtK', 0)
        /\ st' = Max(stBase' - stK', 0)
        /\ MovdReads(0, Max(dtBase - dtK, 0)) ]_vars

\* C3, amended: the counter holds max(d - k - j, 0), where j is 1 when a
\* tick that read the counter before the store, and read the very value
\* d, did its compare-and-swap after the store, and 0 otherwise; a Movd
\* loads that value of the delay counter.
C3_CounterAfterTicks ==
    [][ /\ dt' = Max(dtBase' - dtK' - dtJ', 0)
        /\ st' = Max(stBase' - stK' - stJ', 0)
        /\ MovdReads(0, Max(dtBase - dtK - dtJ, 0)) ]_vars

\* C3, reached: the engine stored MaxTimerVal into the delay counter, two
\* ticks ran, and a Movd has read MaxTimerVal - 2 into register 0.
C3_Witness ==
    /\ dtBase = MaxTimerVal
    /\ dtK = 2
    /\ dtJ = 0
    /\ dt = MaxTimerVal - 2
    /\ v[0] = MaxTimerVal - 2
    /\ res = "Ok"

\* the step of the timer thread that tests the sound counter, with the
\* mutex free and a sound driver installed
SoundTestStep == tpc = "sound_test" /\ tpc' # tpc /\ lock = "free" /\ sound_driver = "Some"

\* what the two arms do once the mutex is taken
SoundCalls ==
    /\ (tpc = "stop_call" /\ tpc' # tpc /\ sound_driver = "Some")
           => called' = "stop" /\ ~st_was_pos'
    /\ (tpc = "start_call" /\ tpc' # tpc /\ sound_driver = "Some")
           => called' = "start" /\ st_was_pos'
    /\ (TimerStep /\ tpc \notin {"stop_call", "start_call"})
           => st_was_pos' = st_was_pos /\ called' \in {called, "none"}

\* C4 as stated: the tick stops the tone when the flag is set and the sound
\* counter as this tick's decrement left it is <= 1, starts it when the
\* flag is clear and that value is > 1, and does neither in any other
\* case.
C4_Original ==
    [][ /\ SoundTestStep =>
            /\ (tpc' = "stop_call") <=> (st_was_pos /\ stPost <= 1)
            /\ (tpc' = "start_call") <=> (~st_was_pos /\ stPost > 1)
        /\ SoundCalls ]_vars

\* C4, amended: the value tested is the sound counter as the tick found it
\* at its compare-and-swap (at its load, when that read zero), before the
\* decrement.
C4_EdgeTrigger ==
    [][ /\ SoundTestStep =>
            /\ (tpc' = "stop_call") <=> (st_was_pos /\ stPre <= 1)
            /\ (tpc' = "start_call") <=> (~st_was_pos /\ stPre > 1)
            /\ (tpc' = "sleep") <=> ~(st_was_pos /\ stPre <= 1) /\ ~(~st_was_pos /\ stPre > 1)
        /\ SoundCalls ]_vars

\* C4, reached: a tick that found the sound counter at 1 and left it at 0
\* has invoked stop_buzz and cleared the flag.
C4_Witness ==
    /\ tpc = "sleep"
    /\ called = "stop"
    /\ ~st_was_pos
    /\ stPre = 1
    /\ stPost = 0

\* C5: the timer thread never waits for the sound driver.  Its test is a
\* step it can always take; with an arm to run and the mutex held by the
\* engine it goes on to its sleep with the flag, the driver and the
\* counters as they were; with the mutex free it runs the arm, in this tick
\* and in every later one.
C5_NoWaitForSound ==
    [][ (tpc = "sound_test" /\ tpc' # tpc /\ (WantStop \/ WantStart)) =>
            /\ lock = "engine" =>
                  /\ tpc' = "sleep"
                  /\ st_was_pos' = st_was_pos
                  /\ called' = called
                  /\ lock' = lock
                  /\ dt' = dt /\ st' = st
                  /\ st \in {stPost, stBase}
            /\ lock = "free" => tpc' = (IF WantStop THEN "stop_call" ELSE "start_call") ]_vars

\* C5, reached: the tick found the mutex held by the engine and went to its
\* sleep without running the arm it had to run.
C5_Witness ==
    /\ tpc = "sleep"
    /\ lock = "engine"
    /\ WantStart
    /\ called = "none"
    /\ sound_driver = "Some"

\* a step of the timer thread that decrements a counter or invokes the
\* sound driver
TimerActs ==
    \/ dt' # dt /\ DtCasStep
    \/ st' # st /\ StCasStep
    \/ tpc \in {"stop_call", "start_call"} /\ tpc' # tpc /\ sound_driver = "Some"

\* C6 as stated: once the halt flag is set the timer thread performs no
\* further decrement and no further invocation of the sound driver, and
\* after the drop has returned it takes no step.
C6_Original ==
    [][ /\ halt => ~TimerActs
        /\ epc = "dropped" => ~TimerStep ]_vars

\* C6, amended: once the halt flag is set the timer thread begins no
\* further tick; the tick in progress runs to its end.  After the drop has
\* returned the thread has ended and takes no step.
C6_NoTickAfterHalt ==
    [][ /\ halt => ~(tpc = "halt_check" /\ tpc' = "dt_load")
        /\ halt => halt'
        /\ tpc = "exited" => tpc' = "exited"
        /\ epc = "dropped" => tpc = "exited" /\ ~TimerStep /\ ~TimerActs ]_vars

\* C6, reached: the halt flag is set while a tick is between its load and
\* its compare-and-swap of the delay counter.
C6_Witness ==
    /\ halt
    /\ tpc = "dt_cas"
    /\ epc = "drop_join"

\* C7: the drop terminates.  Once the halt flag is set the timer thread
\* ends and the join returns; the handle is taken before the join and is
\* not there to be joined again.
C7_DropTerminates ==
    /\ halt ~> (tpc = "exited")
    /\ halt ~> (epc = "dropped")
    /\ [](epc \in {"drop_join", "dropped"} => thread = "None")

\* C7, reached: the drop has returned, with the timer thread ended and the
\* handle taken.
C7_Witness ==
    /\ epc = "dropped"
    /\ tpc = "exited"
    /\ thread = "None"
    /\ halt

\* the engine executes op, by a call of exec or by a tick that decoded it
Executes(name) ==
    \/ \E op \in CpuOps : op.op = name /\ E_ExecOp(op)
    \/ E_Tick /\ TickOp.op = name

\* C8 as stated: a Call with the stack pointer at 32 returns the
\* stack-overflow error and leaves the stack pointer and the stack as they
\* were.
C8_Original ==
    [][ (Executes("Call") /\ sp = MAX_STACK_DEPTH) =>
            /\ res' = "StackOverflow"
            /\ sp' = sp
            /\ stack' = stack ]_vars

\* C9: a Ret with the stack pointer at 0 returns the stack-underflow error,
\* leaves the stack pointer at 0 and the program counter past the Ret; a
\* Ret with the stack pointer above 0 takes 1 from it and sets the program
\* counter to the entry at the new stack pointer.
C9_Ret ==
    [][ Executes("Ret") =>
            /\ sp = 0 =>
                  /\ res' = "StackUnderflow"
                  /\ sp' = 0
                  /\ pc' = pc + 2
                  /\ stack' = stack
            /\ sp > 0 =>
                  /\ res' = "Ok"
                  /\ sp' = sp - 1
                  /\ pc' = stack[sp']
                  /\ stack' = stack ]_vars

\* C9, reached: ProgRet has run to its end by ticks alone.  Its last Ret
\* returned from the call to 0x206, to 0x206, and the Ret there, run with
\* an empty stack, returned the stack-underflow error.
C9_Witness ==
    /\ res = "StackUnderflow"
    /\ sp = 0
    /\ pc = LOAD_OFFSET + 8
    /\ v[0] = 1
    /\ stack[0] = LOAD_OFFSET + 6
    /\ sidx = 0
    /\ nexec = 0

\* C10 as stated: the stack pointer is in 0..32, every access to the stack
\* uses an index in 0..31, and the engine reports overflow and underflow
\* as errors.
C10_Original ==
    /\ sp \in 0 .. MAX_STACK_DEPTH
    /\ sidx \in -1 .. MAX_STACK_DEPTH - 1
    /\ res # "Panic"

\* what a tick leaves alone when it changes nothing but its Result and
\* the program counter
TickKeeps == UNCHANGED <<sp, i, v, stack, ram, vram, dt, st, display_driver, input_driver>>

\* A step that is a call of tick: the engine is running, and the step is
\* neither a call of exec or of load, which nexec and nload count, nor a
\* step of set_sound_driver or of the drop, which move epc, nor a step of
\* the timer thread, which moves tpc, nor a call of set_display_driver or
\* set_input_driver or a change of the keys.
TickStep ==
    /\ Running
    /\ res' # res \/ pc' # pc \/ ~TickKeeps
    /\ UNCHANGED <<nexec, nload, epc, tpc>>
    /\ UNCHANGED <<display_driver, input_driver, keys>>

\* the instruction word at address a
WordAt(a) == RamAt(a) * 256 + RamAt(a + 1)

\* C11 as stated: a tick with either byte of the word at the program
\* counter outside the memory, the program counter at 0xfff included,
\* returns the prefetch-abort error and changes nothing; any other tick
\* fetches the big-endian word at the program counter.
C11_Original ==
    [][ TickStep =>
            /\ pc + 1 > RAM_BYTES - 1 =>
                  /\ res' = "PrefetchAbort"
                  /\ pc' = pc
                  /\ TickKeeps
            /\ pc + 1 <= RAM_BYTES - 1 =>
                  /\ Fetch.res = "Ok"
                  /\ Fetch.word = WordAt(pc) ]_vars

\* C12: a tick on a word that does not decode returns the bad-instruction
\* error and leaves the machine as it was, the program counter too; a tick
\* from the state it leaves returns the bad-instruction error again.
C12_BadInstruction ==
    [][ (TickStep /\ Fetch.res = "Ok" /\ Decode(Fetch.word) = OpNone) =>
            /\ res' = "BadInstruction"
            /\ pc' = pc
            /\ TickKeeps
            /\ (Tick = {Err(pc, "BadInstruction")})' ]_vars

\* C12, reached: the tick on Ld v0, 7 was followed by a tick on the 0xffff
\* that fills the memory past the end of the program.
C12_Witness ==
    /\ res = "BadInstruction"
    /\ pc = LOAD_OFFSET + 2
    /\ WordAt(pc) = 65535
    /\ WordAt(LOAD_OFFSET) = 24583
    /\ v[0] = 7

\* the 35 variants of Op
Variants ==
    {"Cls", "Ret", "Sys", "Jmp", "Call", "Se", "Sne", "Sre", "Ld", "Add", "Mov",
     "Or", "And", "Xor", "Addr", "Subr", "Shr", "Subnr", "Shl", "Srne", "Ldi",
     "Jmpi", "Rand", "Draw", "Skp", "Sknp", "Movd", "Key", "Ldd", "Lds", "Addi",
     "Ldspr", "Bcd", "Str", "Read"}

\* the words C13 lists as failing
C13_Fails(code) ==
    LET n3 == code \div 4096
        n0 == code % 16
        kk == code % 256
    IN  \/ n3 = 5 /\ n0 # 0
        \/ n3 = 8 /\ n0 \in {8, 9, 10, 11, 12, 13, 15}
        \/ n3 = 9 /\ n0 # 0
        \/ n3 = 14 /\ kk \notin {158, 161}
        \/ n3 = 15 /\ kk \notin {7, 10, 21, 24, 30, 41, 51, 85, 101}

\* the operands C13 gives the operation d decoded from code
C13_Operands(code, d) ==
    LET nnn == code % 4096
        kk == code % 256
        x == (code \div 256) % 16
        y == (code \div 16) % 16
    IN  /\ d.op \in {"Cls", "Ret"} => d = MkOp(d.op, 0, 0, 0, 0)
        /\ d.op \in {"Sys", "Jmp", "Call", "Ldi", "Jmpi"} => d = MkOp(d.op, 0, 0, 0, nnn)
        /\ d.op \in {"Se", "Sne", "Ld", "Add", "Rand"} => d = MkOp(d.op, x, 0, kk, 0)
        /\ d.op \in {"Sre", "Mov", "Or", "And", "Xor", "Addr", "Subr", "Subnr", "Srne"}
              => d = MkOp(d.op, x, y, 0, 0)
        /\ d.op \in {"Shr", "Shl"} => {d.x, d.y} = {x, y} /\ d.kk = 0 /\ d.nnn = 0
        /\ d.op = "Draw" => d = MkOp(d.op, x, y, code % 16, 0)
        /\ d.op \in {"Skp", "Sknp", "Movd", "Key", "Ldd", "Lds", "Addi", "Ldspr",
                     "Bcd", "Str", "Read"} => d = MkOp(d.op, x, 0, 0, 0)

\* C13: decode is a function of the word alone that gives every word one of
\* the 35 variants or the failure, with the operands nnn, kk, x and y taken
\* from the low 12 bits, the low 8 bits, nibble 2 and nibble 1; the words
\* that fail are the listed ones and no other.  Checked of the word at
\* 0x200, which is every word.
C13_DecodeTotal ==
    LET d == Decode(WordAt(LOAD_OFFSET))
    IN  /\ d.op \in Variants \cup {"None"}
        /\ (d = OpNone) <=> C13_Fails(WordAt(LOAD_OFFSET))
        /\ (d.op = "None") => d = OpNone
        /\ C13_Operands(WordAt(LOAD_OFFSET), d)

\* C13, reached: the word 0x5011, of the family 5 with a low nibble other
\* than 0, did not decode.
C13_Witness ==
    /\ WordAt(LOAD_OFFSET) = 20497
    /\ pc = LOAD_OFFSET
    /\ res = "BadInstruction"
    /\ Decode(WordAt(pc)) = OpNone

\* C15: every word with leading nibble 0 but 0x00e0 and 0x00ee decodes to
\* Sys(nnn); a tick on it returns the unimplemented-op error, which is not
\* fatal and carries the operation, moves the program counter on by 2 and
\* changes nothing else.
C15_Sys ==
    [][ (TickStep /\ Fetch.res = "Ok" /\ Fetch.word < 4096 /\ Fetch.word \notin {224, 238}) =>
            /\ Decode(Fetch.word) = MkOp("Sys", 0, 0, 0, Fetch.word % 4096)
            /\ res' = "UnimplementedOp"
            /\ ~fatal(res')
            /\ eop' = Decode(Fetch.word)
            /\ pc' = pc + 2
            /\ TickKeeps ]_vars

\* C15, reached: the tick on the word 0x0123 returned the error with
\* Sys(0x123) and left the program counter at the next instruction.
C15_Witness ==
    /\ res = "UnimplementedOp"
    /\ eop = MkOp("Sys", 0, 0, 0, 291)
    /\ pc = LOAD_OFFSET + 2
    /\ WordAt(LOAD_OFFSET) = 291

\* nibble 2 and nibble 1 of a word
NibX(code) == (code \div 256) % 16
NibY(code) == (code \div 16) % 16

\* C14 as stated: 8xy6 decodes to Shr(Reg(y), Reg(x)) and 8xyE to
\* Shl(Reg(y), Reg(x)), every other word of family 8 that decodes to
\* (Reg(x), Reg(y)); a tick on 8xy6 stores v[x] >> 1 into register y and a
\* tick on 8xyE stores (v[x] << 1) mod 256 into register y, and the flag
\* register, where it is not register y, is the bit of v[x] shifted out
\* (0 or not 0).
C14_Original ==
    [][ (TickStep /\ Fetch.res = "Ok" /\ Fetch.word \div 4096 = 8) =>
            LET w == Fetch.word
                x == NibX(w)
                y == NibY(w)
                d == Decode(w)
            IN  /\ w % 16 = 6 => d = MkOp("Shr", y, x, 0, 0)
                /\ w % 16 = 14 => d = MkOp("Shl", y, x, 0, 0)
                /\ (w % 16 \notin {6, 14} /\ d # OpNone) => d.x = x /\ d.y = y
                /\ w % 16 = 6 =>
                      /\ v'[y] = v[x] \div 2
                      /\ y # FLAG_REG => v'[FLAG_REG] = v[x] % 2
                /\ w % 16 = 14 =>
                      /\ v'[y] = (v[x] * 2) % 256
                      /\ y # FLAG_REG => (v'[FLAG_REG] # 0) = (v[x] >= 128) ]_vars

\* C17: Ld(r, a) then Add(r, k) leaves the register file as Ld(r, (a + k)
\* mod 256) leaves it: the two ticks of the program Ld vr, a; Add vr, k
\* leave the register file the program began with, with register r set to
\* (a + k) mod 256, where the tick of a Ld vr, c leaves it with register r
\* set to c; the flag register, when it is not r, is as it was.
C17_LdAdd ==
    LET ld == Decode(WordAt(LOAD_OFFSET))
        add == Decode(WordAt(LOAD_OFFSET + 2))
    IN  (ld.op = "Ld" /\ add.op = "Add" /\ ld.x = add.x) =>
            \E s \in Seeds :
                /\ pc = LOAD_OFFSET => v = RegFile(s)
                /\ pc = LOAD_OFFSET + 2 => v = [RegFile(s) EXCEPT ![ld.x] = ld.kk]
                /\ pc = LOAD_OFFSET + 4 =>
                      /\ v = [RegFile(s) EXCEPT ![ld.x] = (ld.kk + add.kk) % 256]
                      /\ ld.x # FLAG_REG => v[FLAG_REG] = RegFile(s)[FLAG_REG]

\* C17, reached: Ld v0, 255; Add v0, 2 has run with the flag register at
\* 255: register 0 holds 1 and the flag register holds 255 still.
C17_Witness ==
    /\ WordAt(LOAD_OFFSET) = 24831
    /\ WordAt(LOAD_OFFSET + 2) = 28674
    /\ pc = LOAD_OFFSET + 4
    /\ res = "Ok"
    /\ v[0] = 1
    /\ v[FLAG_REG] = 255

\* The register file with register x set to val and then the flag
\* register set to flag: the flag is what remains when x is the flag
\* register.
ValThenFlag(x, val, flag) == [[v EXCEPT ![x] = val] EXCEPT ![FLAG_REG] = flag]

\* C18: Addr, Subr and Subnr leave the difference or the sum mod 256 in
\* v[x] and then the carry, or the negation of the borrow, in the flag
\* register.
C18_AddSub ==
    [][ (TickStep /\ TickOp.op \in {"Addr", "Subr", "Subnr"}) =>
            LET x == TickOp.x
                y == TickOp.y
            IN  /\ res' = "Ok"
                /\ pc' = pc + 2
                /\ TickOp.op = "Addr" =>
                      v' = ValThenFlag(x, (v[x] + v[y]) % 256, IF v[x] + v[y] > 255 THEN 1 ELSE 0)
                /\ TickOp.op = "Subr" =>
                      v' = ValThenFlag(x, (v[x] - v[y]) % 256, IF v[x] >= v[y] THEN 1 ELSE 0)
                /\ TickOp.op = "Subnr" =>
                      v' = ValThenFlag(x, (v[y] - v[x]) % 256, IF v[y] >= v[x] THEN 1 ELSE 0) ]_vars

\* C18, reached: Subr v1, v2 has run with 1 in v1 and 2 in v2: v1 holds
\* 255 and the flag register 0, for the borrow.
C18_Witness ==
    /\ WordAt(LOAD_OFFSET) = 33061
    /\ pc = LOAD_OFFSET + 2
    /\ res = "Ok"
    /\ v[1] = 255
    /\ v[2] = 2
    /\ v[FLAG_REG] = 0

\* C19 as stated: Shr(x, y) leaves bit 0 of the source v[y] in the flag
\* register and v[y] >> 1 in the destination v[x]; Shl(x, y) leaves 1 in the
\* flag register when bit 7 of v[y] was set and 0 otherwise, and (v[y] << 1)
\* mod 256 in v[x]; the flag and the destination are computed from the
\* source as it was before the operation.  When the destination is the
\* flag register either of the two values may remain in it.
C19_Original ==
    [][ (TickStep /\ TickOp.op \in {"Shr", "Shl"}) =>
            LET x == TickOp.x
                y == TickOp.y
                flag == IF TickOp.op = "Shr" THEN v[y] % 2 ELSE v[y] \div 128
                val == IF TickOp.op = "Shr" THEN v[y] \div 2 ELSE (v[y] * 2) % 256
            IN  /\ x # FLAG_REG => v'[x] = val /\ v'[FLAG_REG] = flag
                /\ x = FLAG_REG => v'[FLAG_REG] \in {val, flag}
                /\ \A r \in 0 .. MAX_REG : r \notin {x, FLAG_REG} => v'[r] = v[r] ]_vars

\* C16: load succeeds exactly when the program has at most 3584 bytes.
\* When it succeeds the memory from 0x200 holds the program, every other
\* cell of the memory is as it was and the program counter is 0x200; when
\* it fails the memory and the program counter are as they were.
C16_Load ==
    [][ nload' = nload + 1 =>
          \A data \in LoadPrograms : E_LoadData(data) =>
            IF Len(data) <= 3584
            THEN /\ res' = "Ok"
                 /\ pc' = LOAD_OFFSET
                 /\ \A k \in 1 .. Len(data) : RamAt(LOAD_OFFSET + k - 1)' = data[k]
                 /\ \A a \in 0 .. RAM_BYTES - 1 :
                        (a < LOAD_OFFSET \/ a >= LOAD_OFFSET + Len(data))
                            => RamAt(a)' = RamAt(a)
            ELSE /\ res' = "LoadFailure"
                 /\ pc' = pc
                 /\ \A a \in 0 .. RAM_BYTES - 1 : RamAt(a)' = RamAt(a) ]_vars

\* C16, reached: the program of 3584 bytes was loaded and ProgRet after
\* it: the memory holds ProgRet at 0x200, the longer program after it up
\* to the last cell, and the font sprites below 0x200.
C16_Witness ==
    /\ nload = 1
    /\ res = "Ok"
    /\ pc = LOAD_OFFSET
    /\ \A k \in 1 .. Len(ProgRet) : RamAt(LOAD_OFFSET + k - 1) = ProgRet[k]
    /\ \A k \in Len(ProgRet) + 1 .. Len(ProgFull) : RamAt(LOAD_OFFSET + k - 1) = ProgFull[k]
    /\ Len(ProgFull) = 3584
    /\ RamAt(RAM_BYTES - 1) = ProgFull[3584]
    /\ \A a \in 0 .. 79 : RamAt(a) = FONT_SPRITES[a + 1]

\* the cells of the frame buffer C20 has a Draw of m rows at registers x
\* and y flip: column (v[x] + c) mod 64 of row (v[y] + n) mod 32 for every
\* row n and column c whose bit 7 - c of memory[I + n] is set
C20_Cells(x, y, m) ==
    {((v[y] + n) % 32) * 64 + ((v[x] + c) % 64) :
        <<n, c>> \in {nc \in (0 .. m - 1) \X (0 .. 7) : Bit(RamAt(i + nc[1]), 7 - nc[2]) = 1}}

\* C20 as stated: a Draw whose m rows lie in the memory flips the cells of
\* C20_Cells in the frame buffer and changes no other cell.
C20_Original ==
    [][ (TickStep /\ TickOp.op = "Draw" /\ i + TickOp.kk <= RAM_BYTES) =>
            LET cells == C20_Cells(TickOp.x, TickOp.y, TickOp.kk)
            IN  vram' = (vram \ cells) \cup (cells \ vram) ]_vars

\* a step that is a tick on a Draw the code carried out to its end
DrawnStep ==
    /\ TickStep
    /\ TickOp.op = "Draw"
    /\ res' \in {"Ok", "DriverMissing"}

\* C21 as stated: a Draw of 1..15 rows followed by the same Draw, with the
\* coordinate registers holding what they held, leaves the frame buffer as
\* it was before the first, and the flag register at 1 if the first Draw
\* set a cell that was unset and at 0 if not.  The second Draw is the rows
\* of the same operation from the registers and the frame buffer the first
\* left; the index register and the memory are as the first found them.
C21_Original ==
    [][ (DrawnStep /\ TickOp.kk \in 1 .. 15
            /\ v'[TickOp.x] = v[TickOp.x] /\ v'[TickOp.y] = v[TickOp.y]) =>
            LET second == DrawRows(TickOp.x, TickOp.y, TickOp.kk, 0, v', vram', FALSE)
            IN  /\ second.vram = vram
                /\ second.v[FLAG_REG] = (IF vram' \ vram # {} THEN 1 ELSE 0) ]_vars

\* C22 as stated: a Draw of 0..15 rows that passes its test of the bound
\* leaves 1 in the flag register if a cell of the frame buffer went from
\* set to unset while it ran and 0 if none did, whatever the flag register
\* held before.
C22_Original ==
    [][ DrawnStep =>
            LET rows == DrawRows(TickOp.x, TickOp.y, TickOp.kk, 0, v, vram, FALSE)
            IN  v'[FLAG_REG] = (IF rows.did_clear THEN 1 ELSE 0) ]_vars

\* C23 as stated: a Draw returns the data-abort error exactly when one of
\* its rows I + n, 0 <= n < m, lies past the end of the memory, so that a
\* sprite whose last row is the last byte of the memory is drawn; a Draw
\* that returns the error leaves the frame buffer and the flag register as
\* they were.
C23_Original ==
    [][ (TickStep /\ TickOp.op = "Draw") =>
            /\ (res' = "DataAbort") <=> (\E n \in 0 .. TickOp.kk - 1 : i + n >= RAM_BYTES)
            /\ res' = "DataAbort" => vram' = vram /\ v'[FLAG_REG] = v[FLAG_REG] ]_vars

\* C24: with a display driver, a tick on Cls leaves every cell of the
\* frame buffer unset and makes one call of refresh, and a tick on a Draw
\* that passes its test of the bound makes one call of refresh; the call is
\* given the frame buffer as the operation left it.  A tick on anything
\* else, or on a Draw that fails the test, makes no call of refresh.  With
\* no display driver Cls and the Draw that passes the test return the
\* driver-missing error and no call is made.
C24_Refresh ==
    [][ TickStep =>
            LET shows == \/ TickOp.op = "Cls"
                         \/ TickOp.op = "Draw" /\ res' # "DataAbort"
            IN  /\ (shows /\ display_driver = "Some") =>
                      /\ res' = "Ok"
                      /\ refreshed' = 1
                      /\ shown' = vram'
                /\ (shows /\ display_driver = "None") =>
                      /\ res' = "DriverMissing"
                      /\ refreshed' = 0
                      /\ shown' = shown
                /\ ~shows => refreshed' = 0 /\ shown' = shown
                /\ TickOp.op = "Cls" => vram' = {}
                /\ Cardinality(0 .. VRAM_BYTES - 1) = 2048 ]_vars

\* C24, reached: with a display driver, the glyph 0 was drawn at column 60
\* of row 30 and shown, and the Cls after it cleared the frame buffer and
\* showed the empty one.
C24_Witness ==
    /\ WordAt(LOAD_OFFSET) = 53269
    /\ WordAt(LOAD_OFFSET + 2) = 224
    /\ pc = LOAD_OFFSET + 4
    /\ display_driver = "Some"
    /\ res = "Ok"
    /\ refreshed = 1
    /\ vram = {}
    /\ shown = {}
    /\ i = 0
    /\ v[0] = 60 /\ v[1] = 30

\* the errors exec returns
ExecErrors ==
    {"DriverMissing", "DataAbort", "StackOverflow", "StackUnderflow",
     "UnimplementedOp", "MalformedOp"}

\* A step in which exec ran op and returned an error: a tick that decoded
\* op, or a call of exec(op).
ExecFails(op) ==
    /\ \/ TickStep /\ TickOp = op /\ op # OpNone
       \/ op \in FailOps /\ E_ExecOp(op)
    /\ res' \in ExecErrors

\* the operations exec may run in a step of the error specification
StepOps == {TickOp} \cup FailOps

\* the key-skip-not that found no input driver
SknpMissing(op) == op.op = "Sknp" /\ RegOk(op.x) /\ res' = "DriverMissing"

\* C25 as stated: when exec returns an error the program counter is 2
\* past the operation, or 4 past it for a key-skip-not with no input
\* driver, and the registers, the index register, the memory, the frame
\* buffer, the stack, the stack pointer and the two counters are as before
\* the operation.
C25_Original ==
    [][ \A op \in StepOps : ExecFails(op) =>
            /\ pc' = (IF SknpMissing(op) THEN pc + 4 ELSE pc + 2)
            /\ UNCHANGED <<v, i, ram, vram, stack, sp, dt, st>> ]_vars

\* C25, amended: as stated, but for a Cls and a Draw that find no display
\* driver: the Cls has cleared the frame buffer, and the Draw has drawn its
\* rows and written the flag register, when they return the driver-missing
\* error.
C25_ErrorKeeps ==
    [][ \A op \in StepOps : ExecFails(op) =>
            /\ pc' = (IF SknpMissing(op) THEN pc + 4 ELSE pc + 2)
            /\ UNCHANGED <<i, ram, stack, sp, dt, st>>
            /\ refreshed' = 0
            /\ IF op.op = "Cls" /\ res' = "DriverMissing"
               THEN vram' = {} /\ v' = v
               ELSE IF op.op = "Draw" /\ res' = "DriverMissing"
                    THEN LET rows == DrawRows(op.x, op.y, op.kk, 0, v, vram, FALSE)
                         IN  vram' = rows.vram /\ v' = rows.v
                    ELSE vram' = vram /\ v' = v ]_vars

\* C25, reached: with no display driver the Draw of the five rows of the
\* glyph 0 returned the driver-missing error with the 14 cells of the
\* glyph set in the frame buffer and 0 in the flag register, which held 60.
C25_Witness ==
    /\ WordAt(LOAD_OFFSET) = 53269
    /\ display_driver = "None"
    /\ i = 0
    /\ pc = LOAD_OFFSET + 2
    /\ res = "DriverMissing"
    /\ Cardinality(vram) = 14
    /\ v[FLAG_REG] = 0
    /\ v[0] = 60
    /\ nexec = 0

\* the cells of the memory other than those of w are after the step as
\* they were before it; a cell written in neither state is as Cpu::new
\* left it in both
RamKeptBut(w) ==
    \A a \in (DOMAIN ram \cup DOMAIN ram') \ w : RamAt(a)' = RamAt(a)

\* C26: Bcd(x) succeeds exactly when the index register is at most 4093;
\* it then leaves v[x] div 100, (v[x] div 10) mod 10 and v[x] mod 10 in
\* memory[I], memory[I + 1] and memory[I + 2] and every other cell and
\* every register as they were; otherwise it returns the data-abort error
\* and writes nothing.
C26_Bcd ==
    [][ (TickStep /\ TickOp.op = "Bcd") =>
            LET vx == v[TickOp.x]
            IN  /\ pc' = pc + 2
                /\ UNCHANGED <<v, i, sp, stack, vram, dt, st>>
                /\ IF i <= 4093
                   THEN /\ res' = "Ok"
                        /\ RamAt(i)' = vx \div 100
                        /\ RamAt(i + 1)' = (vx \div 10) % 10
                        /\ RamAt(i + 2)' = vx % 10
                        /\ RamKeptBut({i, i + 1, i + 2})
                   ELSE /\ res' = "DataAbort"
                        /\ ram' = ram ]_vars

\* C26, reached: Bcd v0 with 135 in v0 and the index register at 0x400
\* left 1, 3, 5 in the three cells from 0x400.
C26_Witness ==
    /\ WordAt(LOAD_OFFSET) = 61491
    /\ pc = LOAD_OFFSET + 2
    /\ res = "Ok"
    /\ v[0] = 135
    /\ i = 1024
    /\ RamAt(1024) = 1 /\ RamAt(1025) = 3 /\ RamAt(1026) = 5
    /\ RamAt(1023) = 255 /\ RamAt(1027) = 255

\* C27: Str(x) and Read(x) succeed exactly when I + x is at most 4095.
\* Str(x) then leaves registers 0..x in memory[I..I + x] and every other
\* cell as it was, and a Read(x) after it would leave the registers as
\* they are; Read(x) leaves memory[I..I + x] in registers 0..x and the
\* registers above x as they were.  Neither changes the index register,
\* and one that returns the data-abort error has copied nothing.
C27_StrRead ==
    [][ \A x \in {TickOp.x} :
          /\ (TickStep /\ TickOp.op = "Str") =>
                /\ pc' = pc + 2
                /\ UNCHANGED <<v, i, sp, stack, vram, dt, st>>
                /\ IF i + x <= 4095
                   THEN /\ res' = "Ok"
                        /\ \A r \in 0 .. x : RamAt(i + r)' = v[r]
                        /\ RamKeptBut(i .. i + x)
                        /\ (ExecRead(pc, x).res)' = "Ok"
                        /\ (ExecRead(pc, x).v)' = v
                   ELSE /\ res' = "DataAbort"
                        /\ ram' = ram
          /\ (TickStep /\ TickOp.op = "Read") =>
                /\ pc' = pc + 2
                /\ UNCHANGED <<ram, i, sp, stack, vram, dt, st>>
                /\ IF i + x <= 4095
                   THEN /\ res' = "Ok"
                        /\ \A r \in 0 .. MAX_REG :
                              v'[r] = (IF r <= x THEN RamAt(i + r) ELSE v[r])
                   ELSE /\ res' = "DataAbort"
                        /\ v' = v ]_vars

\* C27, reached: Str v2; Read v5 at 0x400 with 0, 1, 2, 127, 128, 129, 254
\* in v0..v6: the three cells hold 0, 1, 2, the cell after them is as
\* Cpu::new left it, v3..v5 hold the 255 of the cells read and v6 is as it
\* was.
C27_Witness ==
    /\ pc = LOAD_OFFSET + 4
    /\ res = "Ok"
    /\ i = 1024
    /\ WordAt(LOAD_OFFSET) = 62037
    /\ WordAt(LOAD_OFFSET + 2) = 62821
    /\ RamAt(1024) = 0 /\ RamAt(1025) = 1 /\ RamAt(1026) = 2 /\ RamAt(1027) = 255
    /\ v[0] = 0 /\ v[1] = 1 /\ v[2] = 2
    /\ v[3] = 255 /\ v[4] = 255 /\ v[5] = 255
    /\ v[6] = 254

\* C28: Skp and Sknp poll the key whose number is the value of register
\* x.  With an input driver both return Ok, and the program counter is 4
\* past the operation when the key is pressed, for Skp, or not pressed, for
\* Sknp, and 2 past it otherwise; with no input driver both return the
\* driver-missing error, Skp 2 past the operation and Sknp 4 past it.
C28_KeySkip ==
    [][ (TickStep /\ TickOp.op \in {"Skp", "Sknp"}) =>
            LET pressed == v[TickOp.x] \in keys
                skips == IF TickOp.op = "Skp" THEN pressed ELSE ~pressed
            IN  /\ TickKeeps
                /\ input_driver = "Some" =>
                      /\ res' = "Ok"
                      /\ pc' = (IF skips THEN pc + 4 ELSE pc + 2)
                /\ input_driver = "None" =>
                      /\ res' = "DriverMissing"
                      /\ pc' = (IF TickOp.op = "Skp" THEN pc + 2 ELSE pc + 4) ]_vars

\* C28, reached: in Skp v0; Sknp v0, with the key 3 of v0 pressed and the
\* key 0 not, the Skp skipped the Sknp with an input driver installed.
C28_Witness ==
    /\ WordAt(LOAD_OFFSET) = 57502
    /\ WordAt(LOAD_OFFSET + 2) = 57505
    /\ pc = LOAD_OFFSET + 4
    /\ res = "Ok"
    /\ input_driver = "Some"
    /\ v[0] = 3
    /\ keys = {3}

\* the variants of Error
Errors ==
    {"BadInstruction", "DataAbort", "DriverMissing", "LoadFailure", "MalformedOp",
     "PrefetchAbort", "StackOverflow", "StackUnderflow", "UnimplementedOp"}

\* the errors C29 lists as fatal
C29_Fatal ==
    {"BadInstruction", "DataAbort", "LoadFailure", "PrefetchAbort", "StackOverflow",
     "StackUnderflow"}

\* a call of tick fetches, decodes and executes from the fields of the Cpu
\* as they are
Proceeds ==
    IF Fetch.res # "Ok"
    THEN Tick = {[M(pc) EXCEPT !.res = Fetch.res]}
    ELSE IF Decode(Fetch.word) = OpNone
         THEN Tick = {Err(pc, "BadInstruction")}
         ELSE Tick = Exec(Decode(Fetch.word))

\* C29: fatal() is true of bad-instruction, data-abort, load-failure,
\* prefetch-abort, stack-overflow and stack-underflow and false of
\* driver-missing, malformed-op and unimplemented-op; and after the engine
\* returned an error, fatal or not, it is still running and its next tick
\* fetches, decodes and executes from the state the error left.
C29_Classification ==
    /\ \A e \in Errors : fatal(e) <=> e \in C29_Fatal
    /\ res \in Errors =>
          /\ fatal(res) <=> res \in C29_Fatal
          /\ epc = "run" => Running /\ Proceeds

\* C29, reached: the Draw at the last byte of the memory returned the
\* data-abort error, which is fatal, and the tick after it ran Ld v0, 7.
C29_Witness ==
    /\ WordAt(LOAD_OFFSET) = 53269
    /\ WordAt(LOAD_OFFSET + 2) = 24583
    /\ i = RAM_BYTES - 1
    /\ fatal("DataAbort")
    /\ pc = LOAD_OFFSET + 4
    /\ res = "Ok"
    /\ v[0] = 7
    /\ vram = {}
    /\ nexec = 0
    /\ nload = 0

\* the operations C30 names as setting the program counter
C30_Jumps == {"Jmp", "Jmpi", "Call", "Ret"}

\* Whether the skip op skips: the condition C30 has it test.
C30_Skips(op) ==
    CASE op.op = "Se" -> v[op.x] = op.kk
      [] op.op = "Sne" -> v[op.x] # op.kk
      [] op.op = "Sre" -> v[op.x] = v[op.y]
      [] op.op = "Srne" -> v[op.x] # v[op.y]
      [] op.op = "Skp" -> v[op.x] \in keys
      [] op.op = "Sknp" -> v[op.x] \notin keys
      [] OTHER -> FALSE

\* C30: a tick that returns Ok leaves the program counter 2 past the
\* operation, but for the skips, which leave it 4 past the operation when
\* their condition holds, for Jmp, which leaves it at nnn, for Jmpi, which
\* leaves it at nnn + v[0], for Call, which leaves it at nnn with the
\* address 2 past the Call pushed on the stack, and for Ret.
C30_ProgramCounter ==
    [][ (TickStep /\ res' = "Ok" /\ TickOp # OpNone) =>
            LET op == TickOp
            IN  /\ op.op \notin C30_Jumps =>
                      pc' = (IF C30_Skips(op) THEN pc + 4 ELSE pc + 2)
                /\ op.op = "Jmp" => pc' = op.nnn
                /\ op.op = "Jmpi" => pc' = op.nnn + v[0]
                /\ op.op = "Call" =>
                      /\ pc' = op.nnn
                      /\ sp' = sp + 1
                      /\ stack' = [stack EXCEPT ![sp] = pc + 2] ]_vars

\* C30, reached: the call of 0x202 at 0x200 pushed 0x202, the Ret at 0x202
\* returned to 0x202, and the program counter is there with the stack
\* empty again.
C30_Witness ==
    /\ WordAt(LOAD_OFFSET) = 8706
    /\ WordAt(LOAD_OFFSET + 2) = 238
    /\ pc = LOAD_OFFSET + 2
    /\ sp = 0
    /\ stack[0] = LOAD_OFFSET + 2
    /\ sidx = 0
    /\ res = "Ok"

\* C31: the frame buffer has 64 x 32 = 2048 cells, and a step that changes
\* a cell of it is a tick on Cls or on Draw: no call of load, no other
\* operation and no step of the timer thread changes it.
C31_FrameBuffer ==
    /\ [](vram \subseteq 0 .. VRAM_BYTES - 1 /\ VRAM_BYTES = 2048)
    /\ [][ vram' # vram => TickStep /\ TickOp.op \in {"Cls", "Draw"} ]_vars

\* C31, reached: the glyph 0 was drawn, the timer thread is in its tick,
\* and the call of load that gave the four Sys left the 14 cells set.
C31_Witness ==
    /\ nload = 1
    /\ res = "Ok"
    /\ pc = LOAD_OFFSET
    /\ WordAt(LOAD_OFFSET) = 1
    /\ Cardinality(vram) = 14
    /\ tpc = "st_load"

\* C32 as stated: in every state the index register holds a value of 12
\* bits, 0..0xfff.
C32_Original == i \in 0 .. 4095

\* the conditional skips
C33_SkipOps == {"Se", "Sne", "Sre", "Srne", "Skp", "Sknp"}

\* C33: a tick on a conditional skip leaves the program counter 2 or 4
\* past the skip and the stack pointer, the stack and everything else as
\* they were; a step that changes the stack pointer or an entry of the
\* stack is a tick on Call or on Ret.
C33_SkipsKeepStack ==
    [][ /\ (TickStep /\ TickOp.op \in C33_SkipOps) =>
              /\ pc' \in {pc + 2, pc + 4}
              /\ sp' = sp
              /\ stack' = stack
              /\ TickKeeps
        /\ (sp' # sp \/ stack' # stack) => TickStep /\ TickOp.op \in {"Call", "Ret"} ]_vars

\* C33, reached: with an input driver and the key 1 of v0 not pressed,
\* Sknp v0 skipped to 0x204 and the stack pointer is 0 still.
C33_Witness ==
    /\ WordAt(LOAD_OFFSET) = 57505
    /\ input_driver = "Some"
    /\ v[0] = 1
    /\ 1 \notin keys
    /\ pc = LOAD_OFFSET + 4
    /\ res = "Ok"
    /\ sp = 0
    /\ sidx = -1

\* The engine given a program of nested calls, and then ticks.  At 0x200:
\* add v0, 1; se v0, n; call 0x200; so the program calls itself until v0 is
\* n.  With a chain, every level then runs call 0x20C at 0x206, call 0x210
\* at 0x20C, call 0x214 at 0x210 and the Rets at 0x214, 0x212, 0x20E and
\* 0x208; without one, every level runs the Ret at 0x206.
InitNest ==
    \E n \in {1, 2, 3, 30, 31, 33, 34}, chain \in BOOLEAN :
        InitLoaded(<<112, 1, 48, n, 34, 0>> \o
                   (IF chain
                    THEN <<34, 12, 0, 238, 18, 10, 34, 16, 0, 238, 34, 20, 0, 238, 0, 238>>
                    ELSE <<0, 238, 18, 8>>),
                   NewRegs, 0, "None")

NextNest == E_Tick

SpecNest == InitNest /\ [][NextNest]_vars

\* the program of the state has the chain of calls
C34_Chain == WordAt(LOAD_OFFSET + 6) = 8716

\* the return addresses of the chain's calls, in the order of the calls
C34_Returns == <<LOAD_OFFSET + 8, LOAD_OFFSET + 14, LOAD_OFFSET + 18>>

\* how many calls of the chain have not returned when the program counter
\* is at an instruction of the chain
C34_Open ==
    IF ~C34_Chain THEN 0
    ELSE CASE pc \in {LOAD_OFFSET + 12, LOAD_OFFSET + 14} -> 1
           [] pc \in {LOAD_OFFSET + 16, LOAD_OFFSET + 18} -> 2
           [] pc = LOAD_OFFSET + 20 -> 3
           [] OTHER -> 0

\* C34: after any number of nested calls and returns the stack pointer is
\* the number of calls that have not returned, and the entries below it
\* are the addresses after those calls, oldest first: the calls of the
\* program into itself, from 0x204, and above them the open calls of the
\* chain in the order they were made.  So every Ret resumes after the
\* latest call that has not returned, and a Call at p followed by a Ret
\* leaves the program counter at p + 2 and the stack pointer as it was.
C34_RoundTrip ==
    /\ [](res = "Ok" =>
            /\ sp >= C34_Open
            /\ \A k \in 0 .. sp - C34_Open - 1 : stack[k] = LOAD_OFFSET + 6
            /\ \A k \in 1 .. C34_Open : stack[sp - C34_Open + k - 1] = C34_Returns[k])
    /\ [][ (TickStep /\ TickOp.op = "Call" /\ sp < MAX_STACK_DEPTH
                /\ WordAt(TickOp.nnn) = 238) =>
              \A a \in {TickOp.nnn}, p \in {pc}, s \in {sp} :
                  /\ pc' = a
                  /\ sp' = s + 1
                  /\ stack' = [stack EXCEPT ![s] = p + 2]
                  /\ (ExecRet(a + 2))'.pc = p + 2
                  /\ (ExecRet(a + 2))'.sp = s
                  /\ (ExecRet(a + 2))'.res = "Ok" ]_vars
    /\ [][ (TickStep /\ TickOp.op = "Ret" /\ sp > 0) =>
              /\ sp' = sp - 1
              /\ pc' = stack[sp - 1]
              /\ stack' = stack ]_vars

\* C34, reached: the program without the chain and n = 33 has made 32
\* nested calls from an empty stack and then 32 returns, and the 33rd Ret
\* found the stack empty again.
C34_Witness ==
    /\ ~C34_Chain
    /\ v[0] = 33
    /\ res = "StackUnderflow"
    /\ sp = 0
    /\ pc = LOAD_OFFSET + 8
    /\ \A k \in 0 .. MAX_STACK_DEPTH - 1 : stack[k] = LOAD_OFFSET + 6

\* C35 as stated: every tick returns Ok or a variant of Error; none ends
\* in the panic of an index out of bounds or of an addition that overflows
\* 16 bits.
C35_Original == res \in {"Ok"} \cup Errors

\* C36: a tick never returns the malformed-op error, and the operation it
\* decodes has its register operands in 0..15; exec returns the
\* malformed-op error for an operation only when one of its register
\* operands is above 15, and returns it for the operations called with
\* register 16.
C36_NoMalformed ==
    /\ [](/\ \A op \in (FailOps \cup {TickOp}) \ {OpNone} : \A o \in Exec(op) :
                o.res = "MalformedOp" => op.x > MAX_REG \/ op.y > MAX_REG
          /\ \A op \in FailOps : \E o \in Exec(op) : o.res = "MalformedOp")
    /\ [][ TickStep =>
              /\ res' # "MalformedOp"
              /\ TickOp.x \in 0 .. MAX_REG
              /\ TickOp.y \in 0 .. MAX_REG ]_vars

\* C36, reached: the word 0x8ff4, Addr vf, vf, with register 15 as both
\* operands, was executed by a tick that returned Ok.
C36_Witness ==
    /\ WordAt(LOAD_OFFSET) = 36852
    /\ pc = LOAD_OFFSET + 2
    /\ res = "Ok"
    /\ nexec = 0

\* C37 as stated: a Draw carried out with the flag register as its x or
\* its y operand flips, for every row, the cells at the column and the row
\* the registers held before the Draw, and no other cell.
C37_Original ==
    [][ (DrawnStep /\ FLAG_REG \in {TickOp.x, TickOp.y}) =>
            \A x \in {TickOp.x}, y \in {TickOp.y}, m \in {TickOp.kk} :
                LET before == C20_Cells(x, y, m)
                IN  /\ vram' \ vram = before \ vram
                    /\ vram \ vram' = before \cap vram ]_vars

\* The engine that installs a sound driver once, before it executes
\* anything, and then sets register 0, stores it into the counters and
\* reads the delay counter back, with the timer thread running beside it.
NextSound ==
    \/ sound_driver = "None" /\ nexec = 0 /\ E_SetSoundLock /\ arg' = "Some"
    \/ E_SetSoundStore
    \/ sound_driver = "Some" /\ E_Exec(TimerOps)
    \/ TimerThread

SpecSound == Init /\ [][NextSound]_vars

\* steps of the timer thread that invoke start_buzz and stop_buzz
StartStep == tpc = "start_call" /\ tpc' = "sleep" /\ sound_driver = "Some"
StopStep == tpc = "stop_call" /\ tpc' = "sleep" /\ sound_driver = "Some"

\* C38: with the sound driver installed before the first store to the
\* sound counter and not replaced, start_buzz is invoked only when the
\* last operation invoked was not start_buzz, and stop_buzz only when the
\* last operation invoked was start_buzz: the invocations are start, stop,
\* start, stop, ... whatever the engine stores between the timer's steps.
C38_Alternates ==
    [][ /\ StartStep => sounded \in {"none", "stop"} /\ sounded' = "start"
        /\ StopStep => sounded = "start" /\ sounded' = "stop"
        /\ sounded' # sounded => StartStep \/ StopStep ]_vars

\* C38, reached: start_buzz and then stop_buzz were invoked, the engine
\* stored 3 into the sound counter again, and the timer thread holds the
\* lock to invoke start_buzz a second time.
C38_Witness ==
    /\ sounded = "stop"
    /\ tpc = "start_call"
    /\ lock = "timer"
    /\ sound_driver = "Some"
    /\ ~st_was_pos
    /\ stBase = 3
    /\ stPre = 3
    /\ stPost = 2

\* The engine that sets register 0, stores it into the counters, reads the
\* delay counter back and installs a sound driver, as often as it likes
\* and whenever it likes, with the timer thread running beside it.
NextTone ==
    \/ E_Exec(TimerOps)
    \/ E_SetSoundLock /\ arg' = "Some"
    \/ E_SetSoundStore
    \/ TimerThread

\* The scheduler runs the timer thread whenever it can take a step, and
\* set_sound_driver, once it holds the mutex, stores and releases it.
FairSpecTone ==
    Init /\ [][NextTone]_vars /\ WF_vars(TimerThread) /\ WF_vars(E_SetSoundStore)

\* start_buzz was the last operation invoked and the engine executes
\* nothing more, so that it makes no further store to the sound counter
C39_ToneOn == sounded = "start" /\ nexec = MaxExec

\* the sound counter is 0 and stop_buzz was the last operation invoked
C39_ToneOff == st = 0 /\ sounded = "stop"

C40_Stores == E_ExecOp(MkOp("Ldd", 0, 0, 0, 0))

\* C40: a Movd reads the delay counter as it is and leaves it as it is; a
\* step that is not an Ldd never raises the delay counter, and lowers it
\* only by 1 and only as the compare-and-swap of a timer tick, of which a
\* tick makes one.  So of two Movd reads with no Ldd between them the
\* second is no more than the first, and less by no more than the ticks
\* whose compare-and-swap came between them.
C40_Monotone ==
    [][ /\ MovdReads(0, dt)
        /\ E_ExecOp(MkOp("Movd", 0, 0, 0, 0)) => dt' = dt
        /\ dt' > dt => C40_Stores
        /\ dt' < dt => C40_Stores \/ (DtCasStep /\ dt' = dt - 1) ]_vars

\* C40, reached: the engine stored MaxTimerVal into the delay counter with
\* Ld and Ldd, two ticks ran, and the Movd that was its third operation
\* read MaxTimerVal - 2.
C40_Witness ==
    /\ nexec = 3
    /\ dtBase = MaxTimerVal
    /\ dtK = 2
    /\ dt = MaxTimerVal - 2
    /\ v[0] = MaxTimerVal - 2
    /\ st = 0
    /\ stBase = 0
    /\ tpc = "sleep"

====
